---------------------------- MODULE Spec2Model ----------------------------
(***************************************************************************)
(* connectdrive: the fstab document, the credential store, the fstab       *)
(* reconciler and the unused-credential finder, as one state machine over  *)
(* a small file system.                                                    *)
(*                                                                         *)
(* Text is modelled at character level: a string of the program is a       *)
(* sequence of one-character strings, so that strip, split, substring      *)
(* search and path resolution are computed the way the Python code         *)
(* computes them.  A file's content is [lines, nl]: its lines (without     *)
(* their line ends) and whether the last line is terminated.               *)
(***************************************************************************)
EXTENDS Integers, Sequences, FiniteSets, TLC

(***************************************************************************)
(* Python str / re / pathlib primitives used by the sources.               *)
(***************************************************************************)

\* characters str.strip() and re's \s treat as white space inside a line
WS == {" ", "\t"}

Digits == <<"0", "1", "2", "3", "4", "5", "6", "7", "8", "9">>

IsDigit(c) == \E i \in 1..10 : Digits[i] = c

DigitVal(c) == (CHOOSE i \in 1..10 : Digits[i] = c) - 1

\* c.isalnum() for the characters the model uses
IsAlnum(c) == c \notin {"/", ".", "_", "-", " ", "\t", "#", ",", "=", "~", "'", "\"", "+", ":"}

RECURSIVE LStripSet(_, _)
LStripSet(s, cs) ==
    IF s # <<>> /\ Head(s) \in cs THEN LStripSet(Tail(s), cs) ELSE s

RECURSIVE RStripSet(_, _)
RStripSet(s, cs) ==
    IF s # <<>> /\ s[Len(s)] \in cs
    THEN RStripSet(SubSeq(s, 1, Len(s) - 1), cs)
    ELSE s

StripSet(s, cs) == RStripSet(LStripSet(s, cs), cs)

\* str.strip()
Strip(s) == StripSet(s, WS)

StartsWith(s, p) == Len(p) <= Len(s) /\ SubSeq(s, 1, Len(p)) = p

EndsWith(s, p) == Len(p) <= Len(s) /\ SubSeq(s, Len(s) - Len(p) + 1, Len(s)) = p

\* the Python test  a in b  on strings
IsSubstr(a, b) ==
    \E i \in 0..(Len(b) - Len(a)) : SubSeq(b, i + 1, i + Len(a)) = a

\* index of the first element of s that lies in cs, 0 when there is none
FirstIn(s, cs) ==
    IF \E i \in 1..Len(s) : s[i] \in cs
    THEN CHOOSE i \in 1..Len(s) : s[i] \in cs /\ \A j \in 1..(i - 1) : s[j] \notin cs
    ELSE 0

\* str.split(c, n): at most n splits (n < 0: no limit)
RECURSIVE SplitN(_, _, _)
SplitN(s, c, n) ==
    LET i == FirstIn(s, {c}) IN
    IF n = 0 \/ i = 0 THEN <<s>>
    ELSE <<SubSeq(s, 1, i - 1)>> \o SplitN(SubSeq(s, i + 1, Len(s)), c, n - 1)

Split(s, c) == SplitN(s, c, -1)

\* re.split(r'\s+', s, maxsplit=n)
RECURSIVE ReSplitWS(_, _)
ReSplitWS(s, n) ==
    LET i == FirstIn(s, WS) IN
    IF n = 0 \/ i = 0 THEN <<s>>
    ELSE <<SubSeq(s, 1, i - 1)>> \o ReSplitWS(LStripSet(SubSeq(s, i, Len(s)), WS), n - 1)

\* str.split() without arguments: the white-space separated words
Words(s) == IF Strip(s) = <<>> THEN <<>> ELSE ReSplitWS(Strip(s), -1)

RECURSIVE Join(_, _)
Join(parts, sep) ==
    IF parts = <<>> THEN <<>>
    ELSE IF Len(parts) = 1 THEN parts[1]
    ELSE parts[1] \o sep \o Join(Tail(parts), sep)

\* str.replace(a, b) for single characters
Replace(s, a, b) == [i \in 1..Len(s) |-> IF s[i] = a THEN b ELSE s[i]]

RECURSIVE DigitsVal(_, _)
DigitsVal(s, acc) ==
    IF s = <<>> THEN acc ELSE DigitsVal(Tail(s), 10 * acc + DigitVal(Head(s)))

\* int(s): white space stripped, an optional sign, then digits; anything else
\* is a ValueError
IntBody(s) ==
    LET t == Strip(s) IN
    IF t # <<>> /\ Head(t) \in {"+", "-"} THEN Tail(t) ELSE t

IntOk(s) == IntBody(s) # <<>> /\ \A i \in 1..Len(IntBody(s)) : IsDigit(IntBody(s)[i])

IntVal(s) ==
    LET t == Strip(s) IN
    IF Head(t) = "-" THEN 0 - DigitsVal(IntBody(s), 0) ELSE DigitsVal(IntBody(s), 0)

\* str(n) of an integer
RECURSIVE NatStr(_)
NatStr(n) == IF n < 10 THEN <<Digits[n + 1]>> ELSE NatStr(n \div 10) \o <<Digits[(n % 10) + 1]>>

IntStr(n) == IF n < 0 THEN <<"-">> \o NatStr(0 - n) ELSE NatStr(n)


(***************************************************************************)
(* The file system the program runs in.  Paths are absolute strings; the   *)
(* one-letter names stand for the real ones:  /h  the user's home,         *)
(* /h/c  ~/.cifs_credentials,  /e/f  /etc/fstab,  /w  the working          *)
(* directory,  /r  a directory the user may not search (such as /root).    *)
(***************************************************************************)

Home == <<"/", "h">>

Cwd == <<"/", "w">>

\* settings.FSTAB_PATH
FSTAB_PATH == <<"/", "e", "/", "f">>

\* settings.CREDENTIALS_DIR, the default of CredentialsManager.__init__
CREDENTIALS_DIR == <<"~", "/", "c">>

\* symbolic links of the model's file system: link path -> target path
Symlinks ==
    (<<"/", "l">> :> <<"/", "m">>) @@ (<<"/", "h", "/", "k">> :> <<"/", "r", "/", "k">>)
    @@ (<<"/", "h", "/", "c", "/", "j">> :> <<"/", "e">>)

\* directories whose entries the user may not stat (EACCES)
Denied == {<<"r">>}

\* the components of a path: empty components and "." are dropped
PathComps(s) ==
    SelectSeq(Split(s, "/"), LAMBDA c : c # <<>> /\ c # <<".">>)

IsAbs(s) == s # <<>> /\ Head(s) = "/"

PathStr(comps) == <<"/">> \o Join(comps, <<"/">>)

Front(s) == SubSeq(s, 1, Len(s) - 1)

\* os.path.realpath: walk the components, follow links, let ".." drop the
\* last resolved component
RECURSIVE RealPath(_, _, _)
RealPath(done, rest, fuel) ==
    IF rest = <<>> THEN done
    ELSE LET c == Head(rest)
             p == Append(done, c)
         IN IF c = <<".", ".">>
            THEN RealPath(IF done = <<>> THEN done ELSE Front(done), Tail(rest), fuel)
            ELSE IF PathStr(p) \in DOMAIN Symlinks /\ fuel > 0
            THEN RealPath(<<>>, PathComps(Symlinks[PathStr(p)]) \o Tail(rest), fuel - 1)
            ELSE RealPath(p, Tail(rest), fuel)

\* Path(s).resolve(): absolute, links and ".." resolved; Path("") is "."
Resolve(s) ==
    PathStr(RealPath(<<>>, (IF IsAbs(s) THEN <<>> ELSE PathComps(Cwd)) \o PathComps(s), 4))

\* os.path.abspath: absolute and normalised, links not followed
RECURSIVE NormComps(_, _)
NormComps(done, rest) ==
    IF rest = <<>> THEN done
    ELSE IF Head(rest) = <<".", ".">>
    THEN NormComps(IF done = <<>> THEN done ELSE Front(done), Tail(rest))
    ELSE NormComps(Append(done, Head(rest)), Tail(rest))

AbsPath(s) ==
    PathStr(NormComps(<<>>, (IF IsAbs(s) THEN <<>> ELSE PathComps(Cwd)) \o PathComps(s)))

\* Path.expanduser(): "~" and "~/..." name the home; "~name" of an unknown
\* user raises RuntimeError
ExpandUserOk(s) == ~(Len(s) >= 2 /\ s[1] = "~" /\ s[2] # "/")

ExpandUser(s) == IF s # <<>> /\ Head(s) = "~" THEN Home \o Tail(s) ELSE s

\* Path.name
PathName(p) == LET c == PathComps(p) IN IF c = <<>> THEN <<>> ELSE c[Len(c)]

\* Path.parent of an absolute path
PathParent(p) == PathStr(Front(PathComps(p)))

\* Path.is_relative_to: a prefix of whole components
IsRelativeTo(p, d) ==
    LET pc == PathComps(p)
        dc == PathComps(d)
    IN Len(dc) <= Len(pc) /\ SubSeq(pc, 1, Len(dc)) = dc

\* Path.suffix of a file name: from its last dot, unless that dot is first or last
LastDot(n) ==
    IF \E i \in 1..Len(n) : n[i] = "."
    THEN CHOOSE i \in 1..Len(n) : n[i] = "." /\ \A j \in (i + 1)..Len(n) : n[j] # "."
    ELSE 0

NameSuffix(n) ==
    LET i == LastDot(n) IN IF 1 < i /\ i < Len(n) THEN SubSeq(n, i, Len(n)) ELSE <<>>

\* Path.with_suffix
WithSuffix(p, suf) ==
    LET n == PathName(p)
        stem == SubSeq(n, 1, Len(n) - Len(NameSuffix(n)))
    IN PathStr(Append(Front(PathComps(p)), stem \o suf))

\* os.stat of a path below a directory that may not be searched fails with EACCES
StatDenied(p) == PathComps(p) # <<>> /\ PathComps(p)[1] \in Denied


(***************************************************************************)
(* File modes are the nine permission bits as a number.                    *)
(***************************************************************************)

Mode600 == 384

Mode644 == 420

Mode700 == 448

Mode755 == 493

\* 0o777, the default mode of os.makedirs
Mode777 == 511

\* the mode open(..., 'w') asks for when it creates a file
Mode666 == 438

\* mode & 0o077: the group and other bits
GroupOther(m) == m % 64

RECURSIVE BitClear(_, _, _)
BitClear(m, mask, bit) ==
    IF bit > 256 THEN 0
    ELSE (IF (m \div bit) % 2 = 1 /\ (mask \div bit) % 2 = 0 THEN bit ELSE 0)
         + BitClear(m, mask, 2 * bit)

\* the mode a new file or directory gets: mode & ~umask
Masked(m, um) == BitClear(m, um, 1)

EmptyContent == [lines |-> <<>>, nl |-> TRUE]

\* the text  content + "\n"-terminated lines  appended to a file's content
Text(ls) == [lines |-> ls, nl |-> TRUE]

Exists(fs, p) == p \in DOMAIN fs

\* Hard links: the files of one inode share a link group; link = 0 marks a
\* file with a single name.
LinksOf(fs, p) ==
    IF fs[p].link = 0 THEN {p} ELSE {q \in DOMAIN fs : fs[q].link = fs[p].link}

\* open(p, 'w'): truncate an existing file (its mode and its links stay), or
\* create an empty one with mode 0666 & ~umask
OpenW(fs, p, um) ==
    IF Exists(fs, p)
    THEN [q \in DOMAIN fs |-> IF q \in LinksOf(fs, p)
                              THEN [fs[q] EXCEPT !.content = EmptyContent]
                              ELSE fs[q]]
    ELSE (p :> [content |-> EmptyContent, mode |-> Masked(Mode666, um), link |-> 0])
         @@ fs

\* the data of an open file reaching the disk
WriteData(fs, p, c) ==
    [q \in DOMAIN fs |-> IF q \in LinksOf(fs, p) THEN [fs[q] EXCEPT !.content = c] ELSE fs[q]]

\* os.chmod
Chmod(fs, p, m) ==
    [q \in DOMAIN fs |-> IF q \in LinksOf(fs, p) THEN [fs[q] EXCEPT !.mode = m] ELSE fs[q]]

\* an unlink that reports success and leaves the name in place
UnlinkKeep(fs, p) == fs

\* os.unlink
Unlink(fs, p) == [q \in DOMAIN fs \ {p} |-> fs[q]]

\* Path.replace: rename src over dst
Rename(fs, src, dst) ==
    [q \in (DOMAIN fs \ {src}) \cup {dst} |-> IF q = dst THEN fs[src] ELSE fs[q]]

\* shutil.copy2: the content and the mode of src, written into dst
Copy2(fs, src, dst, um) ==
    Chmod(WriteData(OpenW(fs, dst, um), dst, fs[src].content), dst, fs[src].mode)

\* the contents a write of c can leave behind when it fails part-way
Prefixes(c) ==
    {[lines |-> SubSeq(c.lines, 1, k), nl |-> TRUE] : k \in 0..(Len(c.lines) - 1)}
    \cup {EmptyContent}

(***************************************************************************)
(* FstabEntry and Fstab (src/utils/fstab.py).                              *)
(***************************************************************************)

\* FstabEntry.__init__
FstabEntry(filesystem, mount_point, fs_type, options, dump, pass_num, comment) ==
    [filesystem |-> Strip(filesystem),
     mount_point |-> Resolve(mount_point),
     fs_type |-> Strip(fs_type),
     options |-> Strip(options),
     dump |-> dump,
     pass_num |-> pass_num,
     comment |-> Strip(comment)]

\* FstabEntry.__str__
EntryStr(e) ==
    LET line == e.filesystem \o <<" ">> \o e.mount_point \o <<" ">> \o e.fs_type \o <<" ">>
                \o e.options \o <<" ">> \o IntStr(e.dump) \o <<" ">> \o IntStr(e.pass_num)
    IN IF e.comment # <<>> THEN line \o <<" ", " ", "#", " ">> \o e.comment ELSE line

\* an equality that also compares the options
EntryEqWithOptions(a, b) ==
    /\ a.filesystem = b.filesystem
    /\ a.mount_point = b.mount_point
    /\ a.fs_type = b.fs_type
    /\ a.options = b.options

\* FstabEntry.__eq__
EntryEq(a, b) ==
    /\ a.filesystem = b.filesystem
    /\ a.mount_point = b.mount_point
    /\ a.fs_type = b.fs_type

\* the body of the loop of Fstab.load: the entries one line yields (none or one)
LoadLine(raw) ==
    LET line == Strip(raw)
        parts == ReSplitWS(line, 5)
    IN IF line = <<>> THEN <<>>
       ELSE IF Head(line) = "#"
       THEN <<FstabEntry(<<>>, <<>>, <<>>, <<>>, 0, 0, Strip(LStripSet(line, {"#"})))>>
       ELSE IF Len(parts) < 6 THEN <<>>
       ELSE IF ~IntOk(parts[5]) \/ ~IntOk(Strip(Split(parts[6], "#")[1])) THEN <<>>
       ELSE <<FstabEntry(parts[1], parts[2], parts[3], parts[4],
                         IntVal(parts[5]), IntVal(Strip(Split(parts[6], "#")[1])),
                         IF "#" \in {line[i] : i \in 1..Len(line)}
                         THEN Strip(SplitN(line, "#", 1)[2])
                         ELSE <<>>)>>

\* a load that gives up at the first data line it cannot parse
RECURSIVE LoadLinesStop(_)
LoadLinesStop(ls) ==
    IF ls = <<>> THEN <<>>
    ELSE IF LoadLine(Head(ls)) = <<>> /\ Strip(Head(ls)) # <<>> THEN <<>>
    ELSE LoadLine(Head(ls)) \o LoadLinesStop(Tail(ls))

\* Fstab.load: the entries of a file's lines, in file order
RECURSIVE LoadLines(_)
LoadLines(ls) == IF ls = <<>> THEN <<>> ELSE LoadLine(Head(ls)) \o LoadLines(Tail(ls))

\* the content Fstab.save builds from the entries
SaveContent(es) ==
    Text([i \in 1..Len(es) |->
             IF es[i].filesystem = <<>> THEN <<"#">> \o es[i].comment ELSE EntryStr(es[i])])

\* the test  new_entry in self.entries
HasEntry(es, e) == \E i \in 1..Len(es) : EntryEq(es[i], e)

\* a filter that drops only the first entry equal to the target
WithoutEntryFirst(es, target) ==
    LET eq == {i \in 1..Len(es) : EntryEq(es[i], target)}
        first == IF eq = {} THEN 0 ELSE CHOOSE i \in eq : \A j \in eq : i <= j
    IN [i \in 1..(Len(es) - (IF eq = {} THEN 0 ELSE 1)) |->
           IF first = 0 \/ i < first THEN es[i] ELSE es[i + 1]]

\* Fstab.remove_entry's filter
WithoutEntry(es, target) == SelectSeq(es, LAMBDA e : ~EntryEq(e, target))

\* Fstab.find_entries_by_mount_point
find_entries_by_mount_point(es, mount_point) ==
    SelectSeq(es, LAMBDA e : e.mount_point = Resolve(mount_point))


(***************************************************************************)
(* The state.                                                              *)
(***************************************************************************)
VARIABLES
    files,    \* regular files: path -> [content, mode, link]
    dirs,     \* directories: path -> mode
    umask,    \* the process's umask
    entries,  \* Fstab.entries of the NetworkShareService built at start-up
    pc,       \* the step the operation in flight is at, "idle" between calls
    op,       \* the locals of the operation in flight
    pre,      \* history: the files as they were when the last call began
    calls,    \* history: the last two completed calls, [name, arg, value, info]
    ncalls,   \* history: the number of calls completed
    seen,     \* what a concurrent reader last saw at the path being written
    mounted,  \* the mount points the kernel has a file system mounted on
    active_credentials  \* MountService.active_credentials: mount point -> file

vars == <<files, dirs, umask, entries, pc, op, pre, calls, ncalls, seen, mounted,
          active_credentials>>

\* the state of the mounts and of the reader
others == <<seen, mounted, active_credentials>>

mounts == <<mounted, active_credentials>>

NotSeen == [kind |-> "none"]

\* bound on the calls of one run
MaxCalls == 3

NoOp == [name |-> "none"]

Idle == pc = "idle" /\ ncalls < MaxCalls

\* the history keeps the last two calls
LastTwo(cs) == IF Len(cs) > 2 THEN SubSeq(cs, Len(cs) - 1, Len(cs)) ELSE cs

\* a call returns (or raises) value
Return(name, arg, value, info) ==
    /\ pc' = "idle"
    /\ op' = NoOp
    /\ calls' = LastTwo(Append(calls, [name |-> name, arg |-> arg, value |-> value, info |-> info]))
    /\ ncalls' = ncalls + 1

Last == calls[Len(calls)]

\* the resolved path of the fstab file, Fstab.fstab_path
FstabFile == Resolve(ExpandUser(FSTAB_PATH))

\* Fstab.save's backup_path
BackupPath == WithSuffix(FSTAB_PATH, <<".">> \o NameSuffix(PathName(FSTAB_PATH)) \o <<".", "b", "a", "k">>)

\* os.getpid() in secure_file_write's temp_path
Pid == <<"9">>

TempPath(path) == WithSuffix(path, <<".">> \o Pid \o <<".", "t", "m", "p">>)

(***************************************************************************)
(* Fstab.add_entry, remove_entry, load (src/utils/fstab.py).               *)
(***************************************************************************)

DupCheckedAdd(es, e, check_duplicate) == check_duplicate /\ HasEntry(es, e)

add_entry(filesystem, mount_point, fs_type, options, dump, pass_num, comment, check_duplicate) ==
    LET new_entry == FstabEntry(filesystem, mount_point, fs_type, options, dump, pass_num, comment)
        dup == DupCheckedAdd(entries, new_entry, check_duplicate)
    IN /\ Idle
       /\ entries' = IF dup THEN entries ELSE Append(entries, new_entry)
       /\ pre' = files
       /\ Return("add_entry", [entry |-> new_entry, check |-> check_duplicate], ~dup,
                 [before |-> entries, after |-> entries'])
       /\ UNCHANGED <<files, dirs, umask, others>>

remove_entry(filesystem, mount_point, fs_type) ==
    LET target == FstabEntry(filesystem, mount_point, fs_type, <<>>, 0, 0, <<>>) IN
    /\ Idle
    /\ entries' = WithoutEntry(entries, target)
    /\ pre' = files
    /\ Return("remove_entry", [entry |-> target, check |-> FALSE],
              Len(entries') < Len(entries), [before |-> entries, after |-> entries'])
    /\ UNCHANGED <<files, dirs, umask, others>>

load ==
    /\ Idle
    /\ pre' = files
    /\ IF Exists(files, FstabFile)
       THEN /\ entries' = LoadLines(files[FstabFile].content.lines)
            /\ Return("load", FstabFile, "ok", [failed |-> "none"])
       ELSE /\ entries' = <<>>
            /\ Return("load", FstabFile, "FstabError", [failed |-> "exists"])
    /\ UNCHANGED <<files, dirs, umask, others>>

(***************************************************************************)
(* Fstab.save and secure_file_write (src/utils/fstab.py, system.py), one   *)
(* action per file-system call, each of which may fail.                    *)
(***************************************************************************)

save_begin ==
    /\ Idle
    /\ pre' = files
    /\ pc' = "save_backup"
    /\ op' = [name |-> "save", path |-> FstabFile, tmp |-> TempPath(FstabFile),
              content |-> SaveContent(entries), mode |-> Mode644, failed |-> "none"]
    /\ UNCHANGED <<files, dirs, umask, entries, calls, ncalls, others>>

\* a save that logs a failed backup and goes on to write
save_backup_ignored ==
    /\ pc = "save_backup"
    /\ \/ Exists(files, FstabFile) /\ files' = Copy2(files, FstabFile, BackupPath, umask)
       \/ files' = files
    /\ pc' = "sfw_mkdir"
    /\ UNCHANGED <<op, calls, ncalls>>
    /\ UNCHANGED <<dirs, umask, entries, pre, others>>

\* shutil.copy2(self.fstab_path, backup_path); IOError becomes FstabError; a
\* copy that fails part-way leaves what it had written of the backup
save_backup ==
    /\ pc = "save_backup"
    /\ \/ /\ Exists(files, FstabFile)
          /\ files' = Copy2(files, FstabFile, BackupPath, umask)
          /\ pc' = "sfw_mkdir"
          /\ UNCHANGED <<op, calls, ncalls>>
       \/ /\ files' = files
          /\ Return("save", op.path, "FstabError", [failed |-> "backup"])
       \/ /\ Exists(files, FstabFile)
          /\ \E part \in Prefixes(files[FstabFile].content) :
                files' = WriteData(OpenW(files, BackupPath, umask), BackupPath, part)
          /\ Return("save", op.path, "FstabError", [failed |-> "backup"])
    /\ UNCHANGED <<dirs, umask, entries, pre, others>>

\* file_path.parent.mkdir(parents=True, exist_ok=True, mode=0o700), outside the try
sfw_mkdir ==
    /\ pc = "sfw_mkdir"
    /\ \/ /\ dirs' = IF PathParent(op.path) \in DOMAIN dirs THEN dirs
                     ELSE (PathParent(op.path) :> Masked(Mode700, umask)) @@ dirs
          /\ pc' = "sfw_open"
          /\ UNCHANGED <<op, calls, ncalls>>
       \/ /\ PathParent(op.path) \notin DOMAIN dirs
          /\ dirs' = dirs
          /\ Return(op.name, op.path,
                    IF op.name = "save" THEN "OSError" ELSE "CredentialsError",
                    [failed |-> "mkdir"])
    /\ UNCHANGED <<files, umask, entries, pre, others>>

\* with open(temp_path, 'w') as f
sfw_open ==
    /\ pc = "sfw_open"
    /\ \/ /\ files' = OpenW(files, op.tmp, umask)
          /\ pc' = "sfw_write"
          /\ op' = op
       \/ /\ files' = files
          /\ pc' = "sfw_except"
          /\ op' = [op EXCEPT !.failed = "open"]
    /\ UNCHANGED <<dirs, umask, entries, pre, calls, ncalls, others>>

\* f.write(content) and the close of the with block
sfw_write ==
    /\ pc = "sfw_write"
    /\ \/ /\ files' = WriteData(files, op.tmp, op.content)
          /\ pc' = "sfw_chmod"
          /\ op' = op
       \/ /\ \E part \in Prefixes(op.content) : files' = WriteData(files, op.tmp, part)
          /\ pc' = "sfw_except"
          /\ op' = [op EXCEPT !.failed = "write"]
    /\ UNCHANGED <<dirs, umask, entries, pre, calls, ncalls, others>>

\* os.chmod(temp_path, mode)
sfw_chmod ==
    /\ pc = "sfw_chmod"
    /\ \/ /\ files' = Chmod(files, op.tmp, op.mode)
          /\ pc' = "sfw_replace"
          /\ op' = op
       \/ /\ files' = files
          /\ pc' = "sfw_except"
          /\ op' = [op EXCEPT !.failed = "chmod"]
    /\ UNCHANGED <<dirs, umask, entries, pre, calls, ncalls, others>>

\* where a successful secure_file_write leaves the temporary file
SfwInstall(fs, tmp, path) == Rename(fs, tmp, path)

\* temp_path.replace(file_path)
sfw_replace ==
    /\ pc = "sfw_replace"
    /\ \/ /\ files' = SfwInstall(files, op.tmp, op.path)
          /\ Return(op.name, op.path, "ok", [failed |-> "none"])
       \/ /\ files' = files
          /\ pc' = "sfw_except"
          /\ op' = [op EXCEPT !.failed = "replace"]
          /\ UNCHANGED <<calls, ncalls>>
    /\ UNCHANGED <<dirs, umask, entries, pre, others>>

\* an except clause that leaves the temporary file behind
SfwCleanupNone(fs, tmp) == fs

\* what the except clause of secure_file_write does to the temporary file
SfwCleanup(fs, tmp) == IF Exists(fs, tmp) THEN Unlink(fs, tmp) ELSE fs

\* except Exception: unlink the temporary file, raise CredentialsError
sfw_except ==
    /\ pc = "sfw_except"
    /\ files' = SfwCleanup(files, op.tmp)
    /\ Return(op.name, op.path, "CredentialsError", [failed |-> op.failed])
    /\ UNCHANGED <<dirs, umask, entries, pre, others>>

SecureFileWrite == sfw_mkdir \/ sfw_open \/ sfw_write \/ sfw_chmod \/ sfw_replace \/ sfw_except


(***************************************************************************)
(* Inputs.  Fstab lines are built from one-letter fields.                  *)
(***************************************************************************)

Fields(fs) == Join(fs, <<" ">>)

MntM == <<"/", "m">>

\* /l is a symbolic link to /m
MntL == <<"/", "l">>

MntN == <<"/", "n">>

LineA == Fields(<<<<"a">>, MntM, <<"t">>, <<"o">>, <<"0">>, <<"0">>>>)

LineB == Fields(<<<<"b">>, MntM, <<"t">>, <<"p">>, <<"0">>, <<"0">>>>)

LineComment == <<"#", " ", "x">>

\* the directories that exist before the program starts
BaseDirs == (<<"/", "e">> :> Mode755) @@ (Home :> Mode755)

FileOf(ls, mode) == [content |-> Text(ls), mode |-> mode, link |-> 0]

\* Fstab.__init__ loads the file
LoadedEntries(fs) ==
    IF Exists(fs, FstabFile) THEN LoadLines(fs[FstabFile].content.lines) ELSE <<>>

(***************************************************************************)
(* SpecDoc: the in-memory document under add_entry, remove_entry and load. *)
(***************************************************************************)

DocContents == {<<>>, <<LineComment>>, <<LineA>>, <<LineComment, LineB>>}

\* (filesystem, mount_point, fs_type, options) of the calls made
AddArgs ==
    {<<<<"a">>, MntM, <<"t">>, <<"o">>>>,
     <<<<" ", "a">>, MntL, <<"t", " ">>, <<"p">>>>,
     <<<<"b">>, MntM, <<"t">>, <<"o">>>>,
     <<<<"a">>, MntN, <<"t">>, <<"o">>>>}

InitDoc ==
    /\ \E ls \in DocContents : files = (FstabFile :> FileOf(ls, Mode644))
    /\ dirs = BaseDirs
    /\ umask = 18
    /\ entries = LoadedEntries(files)
    /\ pc = "idle"
    /\ op = NoOp
    /\ pre = files
    /\ calls = <<>>
    /\ ncalls = 0
    /\ seen = NotSeen
    /\ mounted = {}
    /\ active_credentials = <<>>

AddEntryCall ==
    \E a \in AddArgs, check \in BOOLEAN :
        add_entry(a[1], a[2], a[3], a[4], 0, 0, <<>>, check)

RemoveEntryCall == \E a \in AddArgs : remove_entry(a[1], a[2], a[3])

NextDoc == AddEntryCall \/ RemoveEntryCall \/ load

SpecDoc == InitDoc /\ [][NextDoc]_vars

\* the identity triple of an entry
Triple(e) == <<e.filesystem, e.mount_point, e.fs_type>>

HoldsTriple(es, e) == \E i \in 1..Len(es) : Triple(es[i]) = Triple(e)

\* C1: two successive add_entry calls with check_duplicate=True and the same
\* identity triple, the first made on a document holding no entry with that
\* triple, return True then False, and the document is one entry longer after
\* both (the second call leaves it as the first left it).
C1_DuplicateRejected ==
    \A i \in 1..(Len(calls) - 1) :
        LET a == calls[i]
            b == calls[i + 1]
        IN (/\ a.name = "add_entry" /\ b.name = "add_entry"
            /\ a.arg.check /\ b.arg.check
            /\ Triple(a.arg.entry) = Triple(b.arg.entry)
            /\ ~HoldsTriple(a.info.before, a.arg.entry))
           => /\ a.value = TRUE
              /\ b.value = FALSE
              /\ Len(b.info.after) = Len(a.info.before) + 1
              /\ b.info.after = a.info.after

\* the second call repeats the triple with other options
C1_Witness ==
    \E i \in 1..(Len(calls) - 1) :
        /\ calls[i].name = "add_entry" /\ calls[i + 1].name = "add_entry"
        /\ calls[i].arg.check /\ calls[i + 1].arg.check
        /\ Triple(calls[i].arg.entry) = Triple(calls[i + 1].arg.entry)
        /\ calls[i].arg.entry.options # calls[i + 1].arg.entry.options
        /\ ~HoldsTriple(calls[i].info.before, calls[i].arg.entry)
        /\ calls[i + 1].value = FALSE


(***************************************************************************)
(* SpecSave: load and save of the fstab file, save one file-system call at *)
(* a time.                                                                 *)
(***************************************************************************)

LineBlank == <<>>

\* fewer than six fields
LineShort == Fields(<<<<"a">>, MntM, <<"t">>>>)

\* a '#' inside the options field
LineHashOpt == Fields(<<<<"a">>, MntM, <<"t">>, <<"o", "#", "p">>, <<"0">>, <<"0">>>>)

\* an inline comment, fields separated by a tab and by two blanks
LineInline ==
    <<"b", "\t">> \o MntN \o <<" ", " ">> \o Fields(<<<<"t">>, <<"o">>, <<"0">>, <<"1">>, <<"#">>, <<"y">>>>)

\* a mount point that is no absolute path, as swap lines have
LineNone == Fields(<<<<"a">>, <<"n", "o">>, <<"t">>, <<"o">>, <<"0">>, <<"0">>>>)

\* a comment that starts with two '#'
LineComment2 == <<"#", "#", "x">>

\* a dump field that is no number
LineNoInt == Fields(<<<<"a">>, MntM, <<"t">>, <<"o">>, <<"x">>, <<"0">>>>)

SaveLines ==
    {LineA, LineComment, LineBlank, LineShort, LineHashOpt, LineInline, LineNone,
     LineComment2, LineNoInt}

\* the initial fstab files: every single line, the pairs and one triple of a
\* data line, a blank line, a comment and a line with an inline comment, and
\* two files with a malformed line between other lines
SaveContents ==
    {<<>>} \cup {<<l>> : l \in SaveLines}
    \cup {<<k, l>> : k, l \in {LineA, LineBlank, LineComment, LineInline}}
    \cup {<<LineComment, LineA, LineBlank, LineInline>>}
    \cup {<<LineA, LineShort, LineInline>>, <<LineComment, LineNoInt, LineA>>}

InitSave ==
    /\ \E ls \in SaveContents : files = (FstabFile :> FileOf(ls, Mode644))
    /\ dirs = BaseDirs
    /\ umask = 18
    /\ entries = LoadedEntries(files)
    /\ pc = "idle"
    /\ op = NoOp
    /\ pre = files
    /\ calls = <<>>
    /\ ncalls = 0
    /\ seen = NotSeen
    /\ mounted = {}
    /\ active_credentials = <<>>

NextSave == load \/ save_begin \/ save_backup \/ SecureFileWrite

SpecSave == InitSave /\ [][NextSave]_vars

IsBlankLine(l) == Strip(l) = <<>>

IsCommentLine(l) == Strip(l) # <<>> /\ Head(Strip(l)) = "#"

IsDataLine(l) == ~IsBlankLine(l) /\ ~IsCommentLine(l)

CommentText(l) == Strip(LStripSet(Strip(l), {"#"}))

\* the first six white-space separated fields of a line
SixFields(l) == SubSeq(Words(l), 1, IF Len(Words(l)) < 6 THEN Len(Words(l)) ELSE 6)

\* a save of the unedited document has just returned
SavedUnedited ==
    /\ pc = "idle" /\ calls # <<>>
    /\ Last.name = "save" /\ Last.value = "ok"
    /\ entries = LoadedEntries(pre)

\* C2: load followed by save (no edits) writes a file in which every line of
\* the original is still at its place: blank lines blank, comment lines with
\* their text, data lines with the same six fields.
C2_RoundTrip ==
    SavedUnedited =>
        LET a == pre[FstabFile].content.lines
            b == files[FstabFile].content.lines
        IN /\ Len(b) = Len(a)
           /\ \A i \in 1..Len(a) :
                  /\ IsBlankLine(a[i]) => IsBlankLine(b[i])
                  /\ IsCommentLine(a[i]) =>
                         IsCommentLine(b[i]) /\ CommentText(b[i]) = CommentText(a[i])
                  /\ IsDataLine(a[i]) => SixFields(b[i]) = SixFields(a[i])

\* C3: when save(backup=True) fails at the open, the write or the chmod of
\* the temporary file, the fstab file is what it was before the call, the
\* backup holds that same content and the temporary file is gone.
C3_FailedSaveKeepsFile ==
    (/\ pc = "idle" /\ calls # <<>>
     /\ Last.name = "save" /\ Last.value = "CredentialsError"
     /\ Last.info.failed \in {"open", "write", "chmod"})
    => /\ Exists(files, FstabFile)
       /\ files[FstabFile] = pre[FstabFile]
       /\ Exists(files, BackupPath)
       /\ files[BackupPath].content = pre[FstabFile].content
       /\ ~Exists(files, TempPath(FstabFile))

\* a write that failed part-way, of a content other than the file's
C3_Witness ==
    /\ pc = "idle" /\ calls # <<>>
    /\ Last.name = "save" /\ Last.value = "CredentialsError"
    /\ Last.info.failed = "write"
    /\ SaveContent(entries) # pre[FstabFile].content
    /\ Len(SaveContent(entries).lines) > 1

(***************************************************************************)
(* Credential files: CredentialsManager.create_credentials_file            *)
(* (src/utils/credentials.py) and FstabService.add_fstab_entry with its    *)
(* _create_credentials_file (src/services/fstab_service.py).               *)
(***************************************************************************)

KeyUsername == <<"u", "s", "e", "r", "n", "a", "m", "e", "=">>

KeyPassword == <<"p", "a", "s", "s", "w", "o", "r", "d", "=">>

KeyDomain == <<"d", "o", "m", "a", "i", "n", "=">>

KeyCredentials == <<"c", "r", "e", "d", "e", "n", "t", "i", "a", "l", "s", "=">>

ExtCred == <<".", "c", "r", "e", "d">>

\* "".join(c if c.isalnum() else "_" for c in s)
Safe(s) == [i \in 1..Len(s) |-> IF IsAlnum(s[i]) THEN s[i] ELSE "_"]

\* CredentialsManager.credentials_dir
credentials_dir == Resolve(ExpandUser(CREDENTIALS_DIR))

\* the values uuid.uuid4().hex takes in the model
Uuids == {<<"1">>, <<"2">>}

\* the file name create_credentials_file chooses
CredFilename(share_name, server, uuid) ==
    IF share_name # <<>> /\ server # <<>>
    THEN Safe(server) \o <<"_">> \o Safe(share_name) \o <<"_">> \o uuid \o ExtCred
    ELSE <<"c", "r", "e", "d", "e", "n", "t", "i", "a", "l", "s", "_">> \o uuid \o ExtCred

\* "\n".join(content): no newline after the last line
CredContent(username, password, domain) ==
    [lines |-> <<KeyUsername \o username, KeyPassword \o password>>
               \o (IF domain # <<>> THEN <<KeyDomain \o domain>> ELSE <<>>),
     nl |-> FALSE]

\* bound on the calls of one run that write credential files or the fstab file
MaxWrites == 1

CanWrite == Idle /\ ncalls < MaxWrites

\* CredentialsManager.create_credentials_file up to its call of
\* secure_file_write, whose steps follow
create_credentials_file(username, password, domain, share_name, server) ==
    \E uuid \in Uuids :
    LET creds_path == credentials_dir \o <<"/">> \o CredFilename(share_name, server, uuid)
        file_path == Resolve(creds_path)
    IN /\ CanWrite
       /\ pre' = files
       /\ seen' = NotSeen
       /\ pc' = "sfw_mkdir"
       /\ op' = [name |-> "create_credentials_file", path |-> file_path,
                 tmp |-> TempPath(file_path),
                 content |-> CredContent(username, password, domain),
                 mode |-> Mode600, failed |-> "none"]
       /\ UNCHANGED <<files, dirs, umask, entries, calls, ncalls, mounts>>

\* a source in the host:path form whatever the file system
SourceColon(server, share, filesystem) == server \o <<":">> \o share

\* the source field add_fstab_entry builds
Source(server, share, filesystem) ==
    IF filesystem = <<"c", "i", "f", "s">>
    THEN <<"/", "/">> \o server \o <<"/">> \o share
    ELSE server \o <<":">> \o share

\* FstabService._create_credentials_file: creds_dir and creds_file
FsCredsDir == ExpandUser(CREDENTIALS_DIR)

FsCredsFile(server, share) ==
    FsCredsDir \o <<"/">> \o Safe(server \o <<"_">> \o share) \o ExtCred

\* the lines _create_credentials_file writes, each with its newline
FsCredContent(username, password, domain) ==
    Text(<<KeyUsername \o username, KeyPassword \o password>>
         \o (IF domain # <<>> THEN <<KeyDomain \o domain>> ELSE <<>>))

\* the fixed text a message of add_fstab_entry starts with, by the place that
\* returns it; the text of an exception or of a command's output follows
AddMessage(why) ==
    IF why = "none" THEN <<>>
    ELSE IF why = "read" THEN <<"I", "m", "p", "o", "s", "s", "i", "b", "l", "e">>
    ELSE IF why = "exists" THEN <<"C", "e", "t", "t", "e">>
    ELSE IF why = "cp" THEN <<"F", "a", "i", "l", "e", "d">>
    ELSE IF why = "added" THEN <<"E", "n", "t", "r", "y">>
    ELSE <<"E", "r", "r", "e", "u", "r">>

\* what add_fstab_entry returns
Result(ok, why) == [ok |-> ok, why |-> why, message |-> AddMessage(why)]

AddInfo ==
    [sudo |-> op.sudo, creds |-> op.creds_file, line |-> op.line, outcomes |-> op.outcomes,
     unlink_failed |-> op.unlink_failed]

AddReturn(ok, why) == Return("add_fstab_entry", op.arg, Result(ok, why), AddInfo)

\* add_fstab_entry up to the credentials: resolve the mount point, create it
add_fstab_entry(server, share, mount_point, filesystem, options, username, password, domain) ==
    LET mp == Resolve(mount_point)
        arg == [server |-> server, share |-> share, mount_point |-> mount_point,
                filesystem |-> filesystem, options |-> options, username |-> username,
                password |-> password, domain |-> domain]
        creds == username # <<>> \/ password # <<>> \/ domain # <<>>
        start == [name |-> "add_fstab_entry", arg |-> arg, mount_point |-> mp,
                  source |-> Source(server, share, filesystem), options |-> options,
                  path |-> Resolve(FsCredsFile(server, share)),
                  content |-> FsCredContent(username, password, domain),
                  creds_file |-> <<>>, line |-> <<>>, tmp |-> <<>>,
                  newcontent |-> EmptyContent, sudo |-> 0, outcomes |-> <<>>,
                  unlink_failed |-> FALSE,
                  result |-> Result(FALSE, "none")]
    IN /\ CanWrite
       /\ pre' = files
       /\ seen' = NotSeen
       /\ \/ /\ ~StatDenied(mp)
             /\ dirs' = IF mp \in DOMAIN dirs THEN dirs ELSE (mp :> Masked(Mode777, umask)) @@ dirs
             /\ pc' = IF creds THEN "fs_cred_mkdir" ELSE "fs_read"
             /\ op' = start
             /\ UNCHANGED <<calls, ncalls>>
          \/ /\ StatDenied(mp) \/ mp \notin DOMAIN dirs
             /\ dirs' = dirs
             /\ Return("add_fstab_entry", arg, Result(FALSE, "mount_point"),
                       [sudo |-> 0, creds |-> <<>>, line |-> <<>>, outcomes |-> <<>>,
                        unlink_failed |-> FALSE])
       /\ UNCHANGED <<files, umask, entries, mounts>>

\* creds_dir.mkdir(mode=0o700, parents=True, exist_ok=True): an existing
\* directory keeps its mode
fs_cred_mkdir ==
    /\ pc = "fs_cred_mkdir"
    /\ \/ /\ dirs' = IF FsCredsDir \in DOMAIN dirs THEN dirs
                     ELSE (FsCredsDir :> Masked(Mode700, umask)) @@ dirs
          /\ pc' = "fs_cred_open"
          /\ UNCHANGED <<op, calls, ncalls>>
       \/ /\ FsCredsDir \notin DOMAIN dirs
          /\ dirs' = dirs
          /\ AddReturn(FALSE, "cred_mkdir")
    /\ UNCHANGED <<files, umask, entries, pre, others>>

\* with open(creds_file, 'w') as f: the final path is truncated or created
fs_cred_open ==
    /\ pc = "fs_cred_open"
    /\ \/ /\ files' = OpenW(files, op.path, umask)
          /\ pc' = "fs_cred_write"
          /\ UNCHANGED <<op, calls, ncalls>>
       \/ /\ files' = files
          /\ AddReturn(FALSE, "cred_open")
    /\ UNCHANGED <<dirs, umask, entries, pre, others>>

\* the f.write calls and the close of the with block
fs_cred_write ==
    /\ pc = "fs_cred_write"
    /\ \/ /\ files' = WriteData(files, op.path, op.content)
          /\ pc' = "fs_cred_chmod"
          /\ UNCHANGED <<op, calls, ncalls>>
       \/ /\ \E part \in Prefixes(op.content) : files' = WriteData(files, op.path, part)
          /\ AddReturn(FALSE, "cred_write")
    /\ UNCHANGED <<dirs, umask, entries, pre, others>>

\* os.chmod(creds_file, 0o600); return str(creds_file); the options and the
\* fstab line of add_fstab_entry
fs_cred_chmod ==
    /\ pc = "fs_cred_chmod"
    /\ \/ /\ files' = Chmod(files, op.path, Mode600)
          /\ pc' = "fs_read"
          /\ op' = [op EXCEPT !.creds_file = FsCredsFile(op.arg.server, op.arg.share),
                              !.options = (IF op.options # <<>> THEN op.options \o <<",">> ELSE <<>>)
                                          \o KeyCredentials
                                          \o FsCredsFile(op.arg.server, op.arg.share)]
          /\ UNCHANGED <<calls, ncalls>>
       \/ /\ files' = files
          /\ AddReturn(FALSE, "cred_chmod")
    /\ UNCHANGED <<dirs, umask, entries, pre, others>>

\* the names tempfile.NamedTemporaryFile can give a new file
TempNames == <<<<"/", "t", "/", "1">>, <<"/", "t", "/", "2">>, <<"/", "t", "/", "3">>>>

FreeTemps(fs) == {i \in 1..Len(TempNames) : TempNames[i] \notin DOMAIN fs}

NewTemp(fs) == TempNames[CHOOSE i \in FreeTemps(fs) : \A j \in FreeTemps(fs) : i <= j]

\* the password the sudo dialog returns
SudoPassword == <<"w">>

\* how one call of MountService._run_sudo_command can end: the dialog is
\* cancelled, creating the password file raises, the command succeeds, or it
\* fails (a non-zero exit, the timeout, another exception)
SudoOutcomes == {"cancelled", "raised", "ok", "failed"}

\* what a command printed on stderr, and on stdout when it succeeded
Stderrs == {<<>>, <<"e">>}

\* a message that is the command's stderr, whatever it holds
SudoMessageVerbatim(outcome, stderr) == stderr

\* the message _run_sudo_command returns with its success flag: the dialog's
\* text, stdout, or  result.stderr or "Echec de la commande (code n)"; a
\* timeout and an exception inside the try have fixed texts as well
SudoMessage(outcome, stderr) ==
    IF outcome = "cancelled" THEN <<"A", "u", "t", "h">>
    ELSE IF outcome = "ok" THEN stderr
    ELSE IF stderr # <<>> THEN stderr
    ELSE <<"E", "c", "h", "e", "c">>

\* the files after _run_sudo_command: the command's effect when it succeeds,
\* and the password file when the unlink of the finally block fails (leak)
RunSudo(fs, outcome, leak, effect) ==
    LET after == IF outcome = "ok" THEN effect ELSE fs
    IN IF leak /\ outcome # "cancelled" /\ FreeTemps(after) # {}
       THEN (NewTemp(after) :> [content |-> Text(<<SudoPassword>>), mode |-> Mode600, link |-> 0])
            @@ after
       ELSE after

\* "# Added by NetworkMounter"
AddedBy ==
    <<"#", " ", "A", "d", "d", "e", "d", " ", "b", "y", " ",
      "N", "e", "t", "w", "o", "r", "k", "M", "o", "u", "n", "t", "e", "r">>

\* content + "\n# Added by NetworkMounter\n" + fstab_line
WithEntryAdded(content, line) ==
    Text(content.lines \o (IF content.nl THEN <<<<>>>> ELSE <<>>) \o <<AddedBy, line>>)

\* the Python test  s in content  on a file's text, for s without a newline
InContent(s, content) == \E i \in 1..Len(content.lines) : IsSubstr(s, content.lines[i])

\* f"{source} {mount_point} {filesystem} {options} {dump} {pass_num}"
FstabLine(source, mount_point, filesystem, options, dump, pass_num) ==
    Join(<<source, mount_point, filesystem, options, IntStr(dump), IntStr(pass_num)>>, <<" ">>)

\* read_fstab and the test for an existing entry
fs_read ==
    LET line == FstabLine(op.source, op.mount_point, op.arg.filesystem, op.options, 0, 0) IN
    /\ pc = "fs_read"
    /\ IF ~Exists(files, FstabFile)
       THEN AddReturn(FALSE, "read")
       ELSE IF InContent(op.source, files[FstabFile].content)
               /\ InContent(op.mount_point, files[FstabFile].content)
       THEN AddReturn(FALSE, "exists")
       ELSE /\ pc' = "fs_tmp"
            /\ op' = [op EXCEPT !.line = line,
                                !.newcontent = WithEntryAdded(files[FstabFile].content, line)]
            /\ UNCHANGED <<calls, ncalls>>
    /\ UNCHANGED <<files, dirs, umask, entries, pre, others>>

\* with tempfile.NamedTemporaryFile(mode='w+', delete=False): write the new
\* content; an exception here is outside the try whose finally unlinks
fs_tmp ==
    /\ pc = "fs_tmp"
    /\ \/ /\ FreeTemps(files) # {}
          /\ files' = (NewTemp(files) :> [content |-> op.newcontent, mode |-> Mode600, link |-> 0])
                      @@ files
          /\ pc' = "fs_cp"
          /\ op' = [op EXCEPT !.tmp = NewTemp(files)]
          /\ UNCHANGED <<calls, ncalls>>
       \/ /\ files' = files
          /\ AddReturn(FALSE, "tmp")
       \/ /\ FreeTemps(files) # {}
          /\ \E part \in Prefixes(op.newcontent) :
                files' = (NewTemp(files) :> [content |-> part, mode |-> Mode600, link |-> 0])
                         @@ files
          /\ AddReturn(FALSE, "tmp_write")
    /\ UNCHANGED <<dirs, umask, entries, pre, others>>

\* cp as root: the target is truncated and rewritten in place
SudoCp(fs, src, dst, um) == WriteData(OpenW(fs, dst, um), dst, fs[src].content)

\* _run_sudo_command(["cp", tmp_path, str(self.fstab_path)]); a cp that fails
\* part-way leaves a truncated target
fs_cp ==
    /\ pc = "fs_cp"
    /\ \E outcome \in SudoOutcomes, leak \in BOOLEAN :
          /\ \/ files' = RunSudo(files, outcome, leak, SudoCp(files, op.tmp, FstabFile, umask))
             \/ /\ outcome = "failed"
                /\ \E part \in Prefixes(op.newcontent) :
                      files' = RunSudo(WriteData(files, FstabFile, part), outcome, leak, files)
          /\ pc' = IF outcome = "ok" THEN "fs_chmod" ELSE "fs_finally"
          /\ op' = [op EXCEPT !.sudo = @ + 1,
                              !.outcomes = Append(@, outcome),
                              !.unlink_failed = @ \/ (leak /\ outcome \in {"ok", "failed"}),
                              !.result = Result(FALSE, IF outcome = "raised" THEN "raised" ELSE "cp")]
    /\ UNCHANGED <<dirs, umask, entries, pre, calls, ncalls, others>>

\* _run_sudo_command(["chmod", "644", str(self.fstab_path)]), its result unused
fs_chmod ==
    /\ pc = "fs_chmod"
    /\ \E outcome \in SudoOutcomes, leak \in BOOLEAN :
          /\ files' = RunSudo(files, outcome, leak, Chmod(files, FstabFile, Mode644))
          /\ pc' = "fs_finally"
          /\ op' = [op EXCEPT !.sudo = @ + 1,
                              !.outcomes = Append(@, outcome),
                              !.unlink_failed = @ \/ (leak /\ outcome \in {"ok", "failed"}),
                              !.result = IF outcome = "raised" THEN Result(FALSE, "raised")
                                         ELSE Result(TRUE, "added")]
    /\ UNCHANGED <<dirs, umask, entries, pre, calls, ncalls, others>>

\* finally: os.unlink(tmp_path); its except clause names logger, which the
\* module does not define, so a failed unlink ends the call in a NameError
\* that the outer except turns into a failure
fs_finally ==
    /\ pc = "fs_finally"
    /\ \/ /\ files' = Unlink(files, op.tmp)
          /\ AddReturn(op.result.ok, op.result.why)
       \/ /\ files' = files
          /\ Return("add_fstab_entry", op.arg, Result(FALSE, "NameError"),
                    [AddInfo EXCEPT !.unlink_failed = TRUE])
    /\ UNCHANGED <<dirs, umask, entries, pre, others>>

AddFstabEntrySteps ==
    \/ fs_cred_mkdir \/ fs_cred_open \/ fs_cred_write \/ fs_cred_chmod
    \/ fs_read \/ fs_tmp \/ fs_cp \/ fs_chmod \/ fs_finally

\* another process reads the path a credential file is being written at
observe ==
    /\ pc \in {"sfw_open", "sfw_write", "sfw_chmod", "sfw_replace", "sfw_except",
               "fs_cred_open", "fs_cred_write", "fs_cred_chmod", "fs_read"}
    /\ op.name \in {"create_credentials_file", "add_fstab_entry"}
    /\ seen' = IF Exists(files, op.path)
               THEN [kind |-> "file", content |-> files[op.path].content,
                     mode |-> files[op.path].mode, new |-> op.content,
                     old |-> IF Exists(pre, op.path) THEN {pre[op.path].content} ELSE {}]
               ELSE [kind |-> "absent"]
    /\ UNCHANGED <<files, dirs, umask, entries, pc, op, pre, calls, ncalls, mounts>>

(***************************************************************************)
(* SpecCred: credential files being created while another process reads.   *)
(***************************************************************************)

Cifs == <<"c", "i", "f", "s">>

Nfs == <<"n", "f", "s">>

\* (username, password, domain, share_name, server) of create_credentials_file
CreateArgs ==
    {<<<<"u">>, <<"p">>, <<>>, <<"x">>, <<"s">>>>,
     <<<<"u">>, <<"q">>, <<"d">>, <<>>, <<>>>>}

\* (server, share, mount_point, filesystem, options, username, password, domain)
\* of add_fstab_entry
CredAddArgs ==
    {<<<<"s">>, <<"x">>, MntM, Cifs, <<"o">>, <<"u">>, <<"p">>, <<>>>>,
     <<<<"s">>, <<"x">>, MntN, Cifs, <<>>, <<"u">>, <<"q">>, <<"d">>>>,
     <<<<"s">>, <<"y">>, MntN, Nfs, <<"o">>, <<>>, <<>>, <<>>>>}

\* the credentials directory before the calls: absent, owner-only, or made
\* by hand under the usual umask
CredDirModes == {Mode700, Mode755}

\* a credential file an earlier run left at the path add_fstab_entry writes
OldCred == [content |-> Text(<<KeyUsername \o <<"v">>, KeyPassword \o <<"r">>>>),
            mode |-> Mode600, link |-> 0]

InitCred ==
    /\ \E ls \in {<<>>, <<LineA>>}, old \in BOOLEAN :
          files = (FstabFile :> FileOf(ls, Mode644))
                  @@ (IF old THEN Resolve(FsCredsFile(<<"s">>, <<"x">>)) :> OldCred ELSE <<>>)
    /\ \/ dirs = BaseDirs /\ Resolve(FsCredsFile(<<"s">>, <<"x">>)) \notin DOMAIN files
       \/ \E m \in CredDirModes : dirs = (credentials_dir :> m) @@ BaseDirs
    /\ umask \in {18, 63}
    /\ entries = LoadedEntries(files)
    /\ pc = "idle"
    /\ op = NoOp
    /\ pre = files
    /\ calls = <<>>
    /\ ncalls = 0
    /\ seen = NotSeen
    /\ mounted = {}
    /\ active_credentials = <<>>

CreateCall == \E a \in CreateArgs : create_credentials_file(a[1], a[2], a[3], a[4], a[5])

CredAddCall ==
    \E a \in CredAddArgs : add_fstab_entry(a[1], a[2], a[3], a[4], a[5], a[6], a[7], a[8])

NextCred == CreateCall \/ SecureFileWrite \/ CredAddCall \/ AddFstabEntrySteps \/ observe

SpecCred == InitCred /\ [][NextCred]_vars

\* the permission bits no group member and no other user may hold
OwnerOnly(m) == GroupOther(m) = 0

\* the state in which create_credentials_file has just returned a path
CreateReturned ==
    pc = "idle" /\ calls # <<>> /\ Last.name = "create_credentials_file" /\ Last.value = "ok"

\* the state in which _create_credentials_file has just returned to add_fstab_entry
FsCreateReturned ==
    pc = "fs_read" /\ op.name = "add_fstab_entry" /\ op.creds_file # <<>>

\* C4: Credential permission postcondition.  When a credential-creation
\* operation has returned successfully (create_credentials_file, or
\* _create_credentials_file inside add_fstab_entry), the file it created and
\* the credentials directory both have no group or other permission bit,
\* whatever the directory was before the call.
C4_OwnerOnlyAfterCreate ==
    /\ CreateReturned =>
          /\ OwnerOnly(files[Last.arg].mode)
          /\ OwnerOnly(dirs[PathParent(Last.arg)])
    /\ FsCreateReturned =>
          /\ OwnerOnly(files[op.path].mode)
          /\ OwnerOnly(dirs[PathParent(op.path)])

\* C5: Atomic credential write.  Whatever a concurrent reader finds at the
\* final credential path while a credential file is being created, it is no
\* file, the complete previous content, or the complete new content under an
\* owner-only mode.
C5_ReaderSeesOldOrNew ==
    seen.kind = "file" =>
        \/ seen.content \in seen.old
        \/ seen.content = seen.new /\ OwnerOnly(seen.mode)

(***************************************************************************)
(* CredentialsManager.delete_credentials_file (src/utils/credentials.py).  *)
(***************************************************************************)

\* what os.urandom(1024) leaves in the file
Urandom == [lines |-> <<<<"?">>>>, nl |-> FALSE]

\* a guard that compares the two paths as strings
DeleteAllowedByPrefix(file_path) == StartsWith(file_path, credentials_dir)

\* file_path.is_relative_to(self.credentials_dir), on the resolved path
DeleteAllowed(file_path) == IsRelativeTo(file_path, credentials_dir)

delete_credentials_file(path) ==
    LET file_path == Resolve(ExpandUser(path)) IN
    /\ Idle
    /\ pre' = files
    /\ \/ /\ ~ExpandUserOk(path)
          /\ files' = files
          /\ Return("delete_credentials_file", path, "RuntimeError", [failed |-> "expanduser"])
       \/ /\ ExpandUserOk(path)
          /\ ~DeleteAllowed(file_path)
          /\ files' = files
          /\ Return("delete_credentials_file", path, "False", [failed |-> "outside"])
       \/ /\ ExpandUserOk(path)
          /\ DeleteAllowed(file_path)
          /\ IF StatDenied(file_path) \/ file_path \in DOMAIN dirs
             THEN \* exists() or open() raises an OSError
                  /\ files' = files
                  /\ Return("delete_credentials_file", path, "False", [failed |-> "open"])
             ELSE IF ~Exists(files, file_path)
             THEN /\ files' = files
                  /\ Return("delete_credentials_file", path, "True", [failed |-> "none"])
             ELSE \/ /\ files' = Unlink(WriteData(files, file_path, Urandom), file_path)
                     /\ Return("delete_credentials_file", path, "True", [failed |-> "none"])
                  \/ /\ files' = files
                     /\ Return("delete_credentials_file", path, "False", [failed |-> "open"])
                  \/ /\ \E c \in {EmptyContent, Urandom} : files' = WriteData(files, file_path, c)
                     /\ Return("delete_credentials_file", path, "False", [failed |-> "unlink"])
    /\ UNCHANGED <<dirs, umask, entries, others>>

\* a file outside the credentials directory, standing for /etc/passwd
PasswdPath == <<"/", "e", "/", "p">>

\* a directory beside the credentials directory whose name starts the same
SiblingCred == <<"/", "h", "/", "c", "c", "/", "x", ".", "c", "r", "e", "d">>

InsideCred == <<"/", "h", "/", "c", "/", "x", ".", "c", "r", "e", "d">>

\* the paths delete_credentials_file is called with
DeletePaths ==
    {PasswdPath,
     <<"~", "/", "c", "/", "x", ".", "c", "r", "e", "d">>,
     <<"/", "h", "/", "c", "/", ".", ".", "/", ".", ".", "/", "e", "/", "p">>,
     SiblingCred,
     <<"~", "/", "c", "/", "j", "/", "p">>,
     <<"x", ".", "c", "r", "e", "d">>,
     <<"~", "u", "/", "x">>,
     <<"/", "h", "/", "c", "/", "z", ".", "c", "r", "e", "d">>,
     <<"/", "h", "/", "c">>}

CredFile(username, password) ==
    [content |-> [lines |-> <<KeyUsername \o username, KeyPassword \o password>>, nl |-> FALSE],
     mode |-> Mode600, link |-> 0]

InitDelete ==
    /\ \E inside, sibling, cwd \in BOOLEAN :
          files = (FstabFile :> FileOf(<<LineA>>, Mode644))
                  @@ (PasswdPath :> FileOf(<<<<"r">>>>, Mode644))
                  @@ (IF inside THEN InsideCred :> CredFile(<<"u">>, <<"p">>) ELSE <<>>)
                  @@ (IF sibling THEN SiblingCred :> CredFile(<<"v">>, <<"q">>) ELSE <<>>)
                  @@ (IF cwd THEN Resolve(<<"x", ".", "c", "r", "e", "d">>) :> CredFile(<<"w">>, <<"r">>)
                      ELSE <<>>)
    /\ dirs = (credentials_dir :> Mode700) @@ (PathParent(SiblingCred) :> Mode700) @@ BaseDirs
    /\ umask = 18
    /\ entries = LoadedEntries(files)
    /\ pc = "idle"
    /\ op = NoOp
    /\ pre = files
    /\ calls = <<>>
    /\ ncalls = 0
    /\ seen = NotSeen
    /\ mounted = {}
    /\ active_credentials = <<>>

DeleteCall == \E p \in DeletePaths : delete_credentials_file(p)

NextDelete == DeleteCall

SpecDelete == InitDelete /\ [][NextDelete]_vars

\* the path names a location outside the credentials directory once ~ is
\* expanded and links and ".." are resolved
ResolvesOutside(path) ==
    /\ ExpandUserOk(path)
    /\ LET p == PathComps(Resolve(ExpandUser(path)))
           d == PathComps(Resolve(ExpandUser(CREDENTIALS_DIR)))
       IN ~(Len(d) <= Len(p) /\ \A i \in 1..Len(d) : p[i] = d[i])

DeleteReturned == pc = "idle" /\ calls # <<>> /\ Last.name = "delete_credentials_file"

\* C6: Deletion path-traversal guard.  For a path that resolves outside the
\* credentials directory, delete_credentials_file returns False and no file's
\* content or existence changes.
C6_OutsideNotDeleted ==
    (DeleteReturned /\ ResolvesOutside(Last.arg)) => Last.value = "False" /\ files = pre

\* delete_credentials_file has refused a path that names an existing file
\* outside the directory
C6_Witness ==
    /\ DeleteReturned
    /\ ResolvesOutside(Last.arg)
    /\ Resolve(ExpandUser(Last.arg)) \in DOMAIN files
    /\ Last.value = "False"

(***************************************************************************)
(* NetworkShareService.find_unused_credentials                             *)
(* (src/services/network_share.py).                                        *)
(***************************************************************************)

Quotes == {"'", "\""}

\* the paths one options field names: for each comma-separated option that
\* starts with credentials=, the value without quotes, expanded and resolved
OptionCredPaths(options) ==
    IF ~IsSubstr(KeyCredentials, options) THEN {}
    ELSE LET opts == Split(options, ",")
             val(i) == StripSet(SplitN(Strip(opts[i]), "=", 1)[2], Quotes)
         IN {Resolve(ExpandUser(val(i))) :
                i \in {k \in 1..Len(opts) : /\ StartsWith(Strip(opts[k]), KeyCredentials)
                                            /\ ExpandUserOk(val(k))}}

\* used_cred_paths
UsedCredPaths(es) == UNION {OptionCredPaths(es[i].options) : i \in 1..Len(es)}

\* CredentialsManager.list_credential_files: credentials_dir.glob("*.cred")
ListCredentialFiles(fs) ==
    {p \in DOMAIN fs \cup DOMAIN Symlinks :
        PathParent(p) = credentials_dir /\ EndsWith(PathName(p), ExtCred)}

\* Path.exists: a path below an unsearchable directory raises PermissionError
\* (Python up to 3.11) or counts as missing (3.12 and later)
PathExistsRaises(p, raises) == raises /\ StatDenied(p)

PathExists(fs, p) == ~StatDenied(p) /\ (p \in DOMAIN fs \/ p \in DOMAIN dirs)

\* Path.samefile of two existing paths
SameFile(fs, a, b) == a = b \/ (a \in DOMAIN fs /\ b \in DOMAIN fs /\ b \in LinksOf(fs, a))

\* normalize_name
NormalizeName(name) == Replace(name, ".", "_")

\* the body of the loop over used_cred_paths: TRUE when one of the four
\* comparisons sets is_used; an exception skips the comparisons that follow
Compared(fs, cred_path, used_path, raises) ==
    IF PathExistsRaises(cred_path, raises)
       \/ (PathExists(fs, cred_path) /\ PathExistsRaises(used_path, raises))
    THEN FALSE
    ELSE \/ /\ PathExists(fs, cred_path)
            /\ PathExists(fs, used_path)
            /\ SameFile(fs, cred_path, used_path)
         \/ cred_path = used_path
         \/ PathName(cred_path) = PathName(used_path)
         \/ NormalizeName(PathName(cred_path)) = NormalizeName(PathName(used_path))

\* the keys of the key=value lines parse_credentials_file keeps
CredKeys(content) ==
    {Strip(SplitN(Strip(content.lines[i]), "=", 1)[1]) :
        i \in {k \in 1..Len(content.lines) :
                 LET line == Strip(content.lines[k])
                 IN line # <<>> /\ Head(line) # "#" /\ IsSubstr(<<"=">>, line)}}

\* parse_credentials_file returns a dictionary rather than raising
ParseOk(fs, file_path, raises) ==
    /\ ~PathExistsRaises(file_path, raises)
    /\ PathExists(fs, file_path)
    /\ file_path \in DOMAIN fs
    /\ Front(KeyUsername) \in CredKeys(fs[file_path].content)
    /\ Front(KeyPassword) \in CredKeys(fs[file_path].content)

\* the 'path' values of the list find_unused_credentials returns
UnusedCredentials(fs, es, raises) ==
    {Resolve(f) : f \in {g \in ListCredentialFiles(fs) :
        /\ ~\E used_path \in UsedCredPaths(es) : Compared(fs, Resolve(g), used_path, raises)
        /\ ParseOk(fs, Resolve(g), raises)}}

find_unused_credentials ==
    /\ Idle
    /\ pre' = files
    /\ \E raises \in BOOLEAN :
          Return("find_unused_credentials", <<>>, UnusedCredentials(files, entries, raises),
                 [raises |-> raises])
    /\ UNCHANGED <<files, dirs, umask, entries, others>>

(***************************************************************************)
(* SpecFind: the finder over fstab files that name credential files.       *)
(***************************************************************************)

SrcX == <<"/", "/", "s", "/", "x">>

CredLine(options) == Fields(<<SrcX, MntM, Cifs, options, <<"0">>, <<"0">>>>)

\* credentials=~/c/x.cred
OptTilde == KeyCredentials \o <<"~", "/", "c", "/", "x", ".", "c", "r", "e", "d">>

\* credentials=/r/x.cred, below a directory the user may not search
OptDenied == KeyCredentials \o <<"/", "r", "/", "x", ".", "c", "r", "e", "d">>

\* o,credentials='/h/c/y.cred'
OptQuoted ==
    <<"o", ",">> \o KeyCredentials
    \o <<"'", "/", "h", "/", "c", "/", "y", ".", "c", "r", "e", "d", "'">>

\* credentials=/h/q, a hard link to /h/c/a.cred
LinkedPath == <<"/", "h", "/", "q">>

OptLinked == KeyCredentials \o LinkedPath

\* credentials=/e/x_cred
OptUnderscore == KeyCredentials \o <<"/", "e", "/", "x", "_", "c", "r", "e", "d">>

FindContents ==
    {<<LineA>>, <<CredLine(OptTilde)>>, <<CredLine(OptDenied)>>, <<CredLine(OptQuoted)>>,
     <<CredLine(OptLinked)>>, <<CredLine(OptUnderscore)>>,
     <<LineComment, CredLine(OptQuoted), CredLine(OptLinked)>>}

CredPath(name) == credentials_dir \o <<"/">> \o name \o ExtCred

\* the credential files before the calls; z.cred holds no password
FindFiles(x, y, a, z) ==
    (IF x THEN CredPath(<<"x">>) :> CredFile(<<"u">>, <<"p">>) ELSE <<>>)
    @@ (IF y THEN CredPath(<<"y">>) :> CredFile(<<"v">>, <<"q">>) ELSE <<>>)
    @@ (IF a THEN (CredPath(<<"a">>) :> [CredFile(<<"w">>, <<"r">>) EXCEPT !.link = 1])
                  @@ (LinkedPath :> [CredFile(<<"w">>, <<"r">>) EXCEPT !.link = 1])
        ELSE <<>>)
    @@ (IF z THEN CredPath(<<"z">>) :> [content |-> Text(<<KeyUsername \o <<"u">>>>),
                                       mode |-> Mode600, link |-> 0]
        ELSE <<>>)

InitFind ==
    /\ \E ls \in FindContents, x, y, a, z \in BOOLEAN :
          files = (FstabFile :> FileOf(ls, Mode644)) @@ FindFiles(x, y, a, z)
    /\ dirs = (credentials_dir :> Mode700) @@ BaseDirs
    /\ umask = 18
    /\ entries = LoadedEntries(files)
    /\ pc = "idle"
    /\ op = NoOp
    /\ pre = files
    /\ calls = <<>>
    /\ ncalls = 0
    /\ seen = NotSeen
    /\ mounted = {}
    /\ active_credentials = <<>>

FindDeleteCall == \E p \in {CredPath(<<"x">>), CredPath(<<"a">>)} : delete_credentials_file(p)

NextFind == find_unused_credentials \/ FindDeleteCall \/ load

SpecFind == InitFind /\ [][NextFind]_vars

FindReturned == pc = "idle" /\ calls # <<>> /\ Last.name = "find_unused_credentials"

\* v denotes the credential file f: the same file, the same normalized path,
\* the same file name, or the same file name once '.' is replaced by '_'
Denotes(fs, v, f) ==
    LET dots(n) == [i \in 1..Len(n) |-> IF n[i] = "." THEN "_" ELSE n[i]] IN
    \/ v = f
    \/ v \in DOMAIN fs /\ f \in DOMAIN fs /\ fs[v].link # 0 /\ fs[v].link = fs[f].link
    \/ PathName(v) = PathName(f)
    \/ dots(PathName(v)) = dots(PathName(f))

\* C7: No false 'unused' report.  A listed credential file that a loaded
\* fstab entry's credentials= token denotes (by file identity, normalized
\* path, file name, or file name with '.' replaced by '_') is not in the
\* result of find_unused_credentials.
C7_NoFalseUnused ==
    FindReturned =>
        \A f \in ListCredentialFiles(files), v \in UsedCredPaths(entries) :
            Denotes(files, v, Resolve(f)) => Resolve(f) \notin Last.value

(***************************************************************************)
(* NetworkMounter.add_to_fstab (network_mounter.py): the fstab file is     *)
(* rewritten directly, or through sudo when the direct write is denied.    *)
(***************************************************************************)

\* the line is a data line whose second word is the mount point
NmMatches(line, mount_point) ==
    /\ Strip(line) # <<>>
    /\ Head(Strip(line)) # "#"
    /\ Len(Words(line)) >= 2
    /\ Words(line)[2] = mount_point

NmMatching(lines, mount_point) == {i \in 1..Len(lines) : NmMatches(lines[i], mount_point)}

\* a loop that keeps the line and goes on when the answer is No
NmScanKeepGoing(lines, mount_point, new_line, yes) ==
    LET idx == NmMatching(lines, mount_point) IN
    [kept |-> FALSE,
     asked |-> Cardinality(idx),
     new_lines |-> [i \in 1..Len(lines) |-> IF i \in idx \cap yes THEN new_line ELSE lines[i]]
                   \o (IF idx \cap yes = {} THEN <<new_line>> ELSE <<>>)]

\* a loop that replaces the line and still appends the new one
NmScanAppend(lines, mount_point, new_line, yes) ==
    LET idx == NmMatching(lines, mount_point)
        no == idx \ yes
        last == IF no # {} THEN CHOOSE i \in no : \A j \in no : i <= j ELSE Len(lines)
    IN [kept |-> no # {},
        asked |-> Cardinality({i \in idx : i <= last}),
        new_lines |-> [i \in 1..Len(lines) |-> IF i \in idx THEN new_line ELSE lines[i]]
                      \o <<new_line>>]

\* the loop over the lines of fstab: each line for the mount point is asked
\* about (yes: the lines answered Yes); Yes replaces it, No returns at once
NmScan(lines, mount_point, new_line, yes) ==
    LET idx == NmMatching(lines, mount_point)
        no == idx \ yes
        last == IF no # {} THEN CHOOSE i \in no : \A j \in no : i <= j ELSE Len(lines)
    IN [kept |-> no # {},
        asked |-> Cardinality({i \in idx : i <= last}),
        new_lines |-> [i \in 1..Len(lines) |-> IF i \in idx THEN new_line ELSE lines[i]]
                      \o (IF idx = {} THEN <<new_line>> ELSE <<>>)]

NmResult(fs, value, s, writes, copies, kept, asked) ==
    [files |-> fs, value |-> value,
     info |-> [yes |-> s, writes |-> writes, copies |-> copies, kept |-> kept, asked |-> asked]]

WithTemp(fs, content) ==
    IF FreeTemps(fs) # {}
    THEN (NewTemp(fs) :> [content |-> content, mode |-> Mode600, link |-> 0]) @@ fs
    ELSE fs

\* the ways the rest of add_to_fstab can go once the fstab line is built, for
\* the answers yes1 to the first round of questions and yes2 to the second
NmRun(fs, um, mount_point, new_line, yes1, yes2) ==
    LET lines == fs[FstabFile].content.lines
        s1 == NmScan(lines, mount_point, new_line, yes1)
        s2 == NmScan(lines, mount_point, new_line, yes2)
        new1 == Text(s1.new_lines)
        new2 == Text(s2.new_lines)
        ans == <<yes1, yes2>>
        both == s1.asked + s2.asked
    IN IF s1.kept THEN {NmResult(fs, "False", ans, 0, 0, TRUE, s1.asked)}
       ELSE \* open("/etc/fstab", "w") succeeds
            {NmResult(WriteData(OpenW(fs, FstabFile, um), FstabFile, new1), "True",
                      ans, 1, 0, FALSE, s1.asked)}
            \cup \* the write fails after the open: the exception is not caught
            {NmResult(WriteData(fs, FstabFile, part), "raised", ans, 1, 0, FALSE, s1.asked) :
                part \in Prefixes(new1)}
            \cup \* PermissionError, then sudo cat fails
            {NmResult(fs, "False", ans, 1, 0, FALSE, s1.asked)}
            \cup \* PermissionError, sudo cat succeeds, the questions are asked again
            (IF s2.kept THEN {NmResult(fs, "False", ans, 1, 0, TRUE, both)}
             ELSE \* the temporary file cannot be written
                  {NmResult(fs, "False", ans, 1, 0, FALSE, both),
                   NmResult(WithTemp(fs, EmptyContent), "False", ans, 1, 0, FALSE, both)}
                  \cup \* sudo cp succeeds; the unlink succeeds or fails
                  {NmResult(WriteData(fs, FstabFile, new2), "True", ans, 1, 1, FALSE, both),
                   NmResult(WithTemp(WriteData(fs, FstabFile, new2), new2), "True",
                            ans, 1, 1, FALSE, both)}
                  \cup \* sudo cp fails, before or after it truncated the target
                  {NmResult(fs, "False", ans, 1, 1, FALSE, both),
                   NmResult(WithTemp(fs, new2), "False", ans, 1, 1, FALSE, both)}
                  \cup {NmResult(WriteData(fs, FstabFile, part), "False", ans, 1, 1, FALSE, both) :
                           part \in Prefixes(new2)})

NmOutcomes(fs, um, mount_point, new_line) ==
    IF ~Exists(fs, FstabFile)
    THEN {NmResult(fs, "raised", <<{}, {}>>, 0, 0, FALSE, 0)}
    ELSE LET idx == NmMatching(fs[FstabFile].content.lines, mount_point)
         IN UNION {NmRun(fs, um, mount_point, new_line, yes1, yes2) :
                      yes1 \in SUBSET idx, yes2 \in SUBSET idx}

\* the credentials file add_to_fstab writes for a cifs share
NmCredPath(server, share) ==
    ExpandUser(CREDENTIALS_DIR) \o <<"/">> \o server \o <<"_">> \o Replace(share, "/", "_")
    \o ExtCred

NmCredContent(username, password, domain) ==
    Text((IF username # <<>> THEN <<KeyUsername \o username>> ELSE <<>>)
         \o (IF password # <<>> THEN <<KeyPassword \o password>> ELSE <<>>)
         \o (IF domain # <<>> THEN <<KeyDomain \o domain>> ELSE <<>>))

nm_add_to_fstab(server_, share_, mount_point_, username_, password, domain_, filesystem, options_) ==
    LET server == Strip(server_)
        share == Strip(share_)
        mount_point == Strip(mount_point_)
        username == Strip(username_)
        domain == Strip(domain_)
        options == Strip(options_)
        arg == [server |-> server, share |-> share, mount_point |-> mount_point,
                filesystem |-> filesystem, options |-> options, username |-> username,
                password |-> password, domain |-> domain]
        source == Source(server, share, filesystem)
        creds == filesystem = Cifs /\ (username # <<>> \/ password # <<>> \/ domain # <<>>)
        creds_file_path == NmCredPath(server, share)
        cred == Resolve(creds_file_path)
        fstab_options == IF creds
                         THEN (IF options # <<>> THEN options \o <<",">> ELSE <<>>)
                              \o KeyCredentials \o creds_file_path
                         ELSE options
        fstab_line == Strip(Join(<<source, mount_point, filesystem, fstab_options,
                                   <<"0", " ", "0">>>>, <<"\t">>))
        cred_dir == ExpandUser(CREDENTIALS_DIR)
        made == IF cred_dir \in DOMAIN dirs THEN dirs ELSE (cred_dir :> Masked(Mode700, umask)) @@ dirs
        written == Chmod(WriteData(OpenW(files, cred, umask), cred,
                                   NmCredContent(username, password, domain)), cred, Mode600)
        none == [yes |-> <<{}, {}>>, writes |-> 0, copies |-> 0, kept |-> FALSE, asked |-> 0]
    IN /\ CanWrite
       /\ pre' = files
       /\ IF server = <<>> \/ share = <<>> \/ mount_point = <<>>
          THEN /\ files' = files
               /\ dirs' = dirs
               /\ Return("nm_add_to_fstab", arg, "False", none)
          ELSE \/ /\ creds
                  /\ \/ dirs' = dirs /\ cred_dir \notin DOMAIN dirs /\ files' = files
                     \/ dirs' = made /\ files' = files
                     \/ dirs' = made /\ files' = OpenW(files, cred, umask)
                  /\ Return("nm_add_to_fstab", arg, "False", none)
               \/ /\ dirs' = IF creds THEN made ELSE dirs
                  /\ \E r \in NmOutcomes(IF creds THEN written ELSE files, umask,
                                         mount_point, fstab_line) :
                        /\ files' = r.files
                        /\ Return("nm_add_to_fstab", arg, r.value, r.info)
       /\ UNCHANGED <<umask, entries, others>>

(***************************************************************************)
(* SpecAdd: a share is added to fstab, by FstabService.add_fstab_entry or  *)
(* by NetworkMounter.add_to_fstab.                                         *)
(***************************************************************************)

\* //s/x /m cifs o 0 0
LineSX == Fields(<<SrcX, MntM, Cifs, <<"o">>, <<"0">>, <<"0">>>>)

\* //s/xy /mm cifs o 0 0: source and mount point that contain //s/x and /m
LineSub == Fields(<<SrcX \o <<"y">>, MntM \o <<"m">>, Cifs, <<"o">>, <<"0">>, <<"0">>>>)

AddContents ==
    {<<>>, <<LineComment>>, <<LineBlank, LineComment>>, <<LineA>>, <<LineA, LineB>>, <<LineSX>>,
     <<LineComment, LineA, LineInline>>, <<LineSub>>}

\* (server, share, mount_point, filesystem, options, username, password, domain)
AddShareArgs ==
    {<<<<"s">>, <<"x">>, MntM, Cifs, <<"o">>, <<"u">>, <<"p">>, <<>>>>,
     <<<<"s">>, <<"x">>, MntL, Cifs, <<"o", ",", "v">>, <<"u">>, <<"p">>, <<"d">>>>,
     <<<<"s">>, <<"y">>, MntN, Nfs, <<>>, <<>>, <<>>, <<>>>>}

\* (server, share, mount_point, username, password, domain, filesystem, options)
NmArgs ==
    {<<<<"s">>, <<"x">>, MntM, <<"u">>, <<"p">>, <<>>, Cifs, <<"o">>>>,
     <<<<" ", "s">>, <<"y">>, <<"/", "m", " ">>, <<>>, <<>>, <<>>, Nfs, <<>>>>,
     <<<<"s">>, <<"x">>, MntN, <<>>, <<>>, <<>>, Cifs, <<"o">>>>,
     <<<<>>, <<"x">>, MntM, <<>>, <<>>, <<>>, Cifs, <<>>>>}

InitAdd ==
    /\ \E ls \in AddContents : files = (FstabFile :> FileOf(ls, Mode644))
    /\ \E m \in BOOLEAN :
          dirs = (IF m THEN MntM :> Mode755 ELSE <<>>) @@ (credentials_dir :> Mode700) @@ BaseDirs
    /\ umask = 18
    /\ entries = LoadedEntries(files)
    /\ pc = "idle"
    /\ op = NoOp
    /\ pre = files
    /\ calls = <<>>
    /\ ncalls = 0
    /\ seen = NotSeen
    /\ mounted = {}
    /\ active_credentials = <<>>

AddShareCall ==
    \E a \in AddShareArgs : add_fstab_entry(a[1], a[2], a[3], a[4], a[5], a[6], a[7], a[8])

NmAddCall ==
    \E a \in NmArgs : nm_add_to_fstab(a[1], a[2], a[3], a[4], a[5], a[6], a[7], a[8])

NextAdd == AddShareCall \/ AddFstabEntrySteps \/ NmAddCall

SpecAdd == InitAdd /\ [][NextAdd]_vars

NmReturned == pc = "idle" /\ calls # <<>> /\ Last.name = "nm_add_to_fstab"

AddReturned == pc = "idle" /\ calls # <<>> /\ Last.name = "add_fstab_entry"

\* the fstab text has a data line for the mount point
HasLineFor(content, mount_point) ==
    \E i \in 1..Len(content.lines) :
        /\ IsDataLine(content.lines[i])
        /\ Len(Words(content.lines[i])) >= 2
        /\ Words(content.lines[i])[2] = mount_point

FstabContentKept ==
    /\ Exists(pre, FstabFile)
    /\ Exists(files, FstabFile)
    /\ files[FstabFile].content = pre[FstabFile].content

\* every conflict question of the call was answered Keep
AllKeep == Last.info.yes = <<{}, {}>>

\* C8: Conflict KEEP-EXISTING.  When a share is added for a mount point the
\* fstab file already has a data line for and the conflict decision is Keep,
\* the call returns failure, no write and no privileged copy of fstab is
\* attempted, and the content of fstab is what it was before the call.  In
\* add_to_fstab a Keep given in the second round of questions, after a denied
\* write, still ends the call before any copy; add_fstab_entry asks nothing
\* and refuses an entry it finds present without running a command.
C8_KeepLeavesFstab ==
    /\ (/\ NmReturned
        /\ Exists(pre, FstabFile)
        /\ HasLineFor(pre[FstabFile].content, Last.arg.mount_point)
        /\ AllKeep)
       => /\ Last.value = "False"
          /\ Last.info.writes = 0
          /\ Last.info.copies = 0
          /\ FstabContentKept
    /\ (NmReturned /\ Last.info.kept)
       => Last.value = "False" /\ Last.info.copies = 0 /\ FstabContentKept
    /\ (AddReturned /\ Last.value.why = "exists")
       => ~Last.value.ok /\ Last.info.sudo = 0 /\ FstabContentKept

\* add_to_fstab asked about an existing line for the mount point, was told
\* to keep it, and returned False
C8_Witness ==
    /\ NmReturned
    /\ HasLineFor(pre[FstabFile].content, Last.arg.mount_point)
    /\ AllKeep
    /\ Last.info.asked >= 1
    /\ Last.value = "False"

DataLines(content) == SelectSeq(content.lines, IsDataLine)

\* the antecedent of C9: no data line before, a cifs share with options,
\* username and password, and a call that succeeded
C9_Case ==
    /\ AddReturned
    /\ Last.value.ok
    /\ Exists(pre, FstabFile)
    /\ DataLines(pre[FstabFile].content) = <<>>
    /\ Last.arg.filesystem = Cifs
    /\ Last.arg.options # <<>>
    /\ Last.arg.username # <<>>
    /\ Last.arg.password # <<>>

\* C9: End-to-end AddShare.  On an fstab without data lines, a successful
\* add_fstab_entry of a cifs share with options, username and password leaves
\* exactly one data line: source //server/share, the resolved mount point,
\* type cifs, and options that hold the given options and exactly one
\* credentials=<path> token, the file at <path> holding username=<username>
\* and password=<password>.
C9_EndToEndAdd ==
    C9_Case =>
        LET data == DataLines(files[FstabFile].content)
            w == Words(data[1])
            toks == Split(w[4], ",")
            given == Split(Last.arg.options, ",")
            ci == {i \in 1..Len(toks) : StartsWith(toks[i], KeyCredentials)}
            path == SubSeq(toks[CHOOSE i \in ci : TRUE], Len(KeyCredentials) + 1,
                           Len(toks[CHOOSE i \in ci : TRUE]))
            held == files[Resolve(path)].content.lines
        IN /\ Len(data) = 1
           /\ Len(w) >= 4
           /\ w[1] = <<"/", "/">> \o Last.arg.server \o <<"/">> \o Last.arg.share
           /\ w[2] = Resolve(Last.arg.mount_point)
           /\ w[3] = Cifs
           /\ \A i \in 1..Len(given) : \E j \in 1..Len(toks) : toks[j] = given[i]
           /\ Cardinality(ci) = 1
           /\ Resolve(path) \in DOMAIN files
           /\ \E i \in 1..Len(held) : held[i] = KeyUsername \o Last.arg.username
           /\ \E i \in 1..Len(held) : held[i] = KeyPassword \o Last.arg.password

\* a successful add on an fstab that held only a blank line and a comment
C9_Witness ==
    /\ C9_Case
    /\ pre[FstabFile].content.lines # <<>>
    /\ Len(DataLines(files[FstabFile].content)) = 1

(***************************************************************************)
(* MountService.mount_share, unmount_share and _cleanup_credentials        *)
(* (src/services/mount_service.py).                                        *)
(***************************************************************************)

\* os.path.expanduser: an unknown ~user is left as it is
OsExpandUser(s) == IF ExpandUserOk(s) THEN ExpandUser(s) ELSE s

\* the file create_credentials_file leaves when it succeeds
Created(fs, path, content) == (path :> [content |-> content, mode |-> Mode600, link |-> 0]) @@ fs

mount_share(server, share, mount_point, username, password, domain, filesystem, options) ==
    LET place == Resolve(mount_point)
        needs == username # <<>> /\ password # <<>>
        arg == [server |-> server, share |-> share, mount_point |-> mount_point,
                filesystem |-> filesystem, options |-> options, username |-> username,
                password |-> password, domain |-> domain]
        made == IF place \in DOMAIN dirs THEN dirs ELSE (place :> Masked(Mode755, umask)) @@ dirs
        withdir == IF credentials_dir \in DOMAIN made THEN made
                   ELSE (credentials_dir :> Masked(Mode700, umask)) @@ made
    IN /\ CanWrite
       /\ pre' = files
       /\ \/ /\ StatDenied(place) \/ place \notin DOMAIN dirs
             /\ UNCHANGED <<files, dirs, mounts>>
             /\ Return("mount_share", arg, "False",
                       [creds_file |-> <<>>, failed |-> "mkdir", prompts |-> 0,
                        message |-> <<"I", "m", "p", "o", "s", "s", "i", "b", "l", "e">>])
          \/ /\ ~StatDenied(place)
             /\ needs
             /\ dirs' = made
             /\ UNCHANGED <<files, mounts>>
             /\ Return("mount_share", arg, "False",
                       [creds_file |-> <<>>, failed |-> "credentials", prompts |-> 0,
                        message |-> <<"E", "r", "r", "e", "u", "r">>])
          \/ /\ ~StatDenied(place)
             /\ \E uuid \in Uuids, outcome \in SudoOutcomes, leak \in BOOLEAN, stderr \in Stderrs :
                   LET creds_file == credentials_dir \o <<"/">> \o CredFilename(share, server, uuid)
                       fs1 == IF needs
                              THEN Created(files, Resolve(creds_file),
                                           CredContent(username, password, domain))
                              ELSE files
                   IN /\ outcome \in {"cancelled", "raised", "ok"} => stderr = <<>>
                      /\ dirs' = IF needs THEN withdir ELSE made
                      /\ files' = RunSudo(fs1, outcome, leak, fs1)
                      /\ active_credentials' = IF needs
                                               THEN (mount_point :> creds_file) @@ active_credentials
                                               ELSE active_credentials
                      /\ mounted' = IF outcome = "ok" THEN mounted \cup {place} ELSE mounted
                      /\ Return("mount_share", arg, IF outcome = "ok" THEN "True" ELSE "False",
                                [creds_file |-> IF needs THEN creds_file ELSE <<>>,
                                 failed |-> IF outcome = "ok" THEN "none" ELSE "mount",
                                 prompts |-> 1,
                                 message |-> IF outcome = "ok" THEN <<"P", "a", "r", "t", "a", "g", "e">>
                                             ELSE IF outcome = "raised"
                                             THEN <<"E", "r", "r", "e", "u", "r">>
                                             ELSE SudoMessage(outcome, stderr)])
       /\ UNCHANGED <<umask, entries, seen>>

\* bound on the calls of one run of mounts and unmounts
MaxMountCalls == 2

\* a cleanup that forgets the record and keeps the file
CleanupCredentialsKeep(fs, ac, mount_point, fails) == fs

\* _cleanup_credentials: unlink the file recorded for the mount point
CleanupCredentials(fs, ac, mount_point, fails) ==
    IF mount_point \in DOMAIN ac /\ Exists(fs, Resolve(ac[mount_point])) /\ ~fails
    THEN Unlink(fs, Resolve(ac[mount_point]))
    ELSE fs

\* the directory is empty
IsEmptyDir(fs, ds, d) ==
    ~\E p \in (DOMAIN fs \cup DOMAIN ds) \ {d} : IsRelativeTo(p, d)

unmount_share(mount_point_, force, lazy) ==
    LET mount_point == AbsPath(OsExpandUser(Strip(mount_point_)))
        arg == [mount_point |-> mount_point_, force |-> force, lazy |-> lazy]
        info(prompts, fails, message) ==
            [prompts |-> prompts, fails |-> fails, before |-> active_credentials,
             message |-> message]
    IN /\ Idle /\ ncalls < MaxMountCalls
       /\ pre' = files
       /\ IF mount_point \notin mounted
          THEN /\ UNCHANGED <<files, dirs, mounts>>
               /\ Return("unmount_share", arg, "False", info(0, FALSE, <<"A", "u", "c", "u", "n">>))
          ELSE \E first \in SudoOutcomes \cup {"busy"}, second \in SudoOutcomes,
                  leak \in BOOLEAN, fails \in BOOLEAN :
                  LET retry == first = "busy" /\ ~lazy
                      ok == first = "ok" \/ (retry /\ second = "ok")
                      last == IF retry THEN second ELSE IF first = "busy" THEN "failed" ELSE first
                      cleaned == CleanupCredentials(files, active_credentials, mount_point, fails)
                  IN /\ retry \/ second = "failed"
                     /\ ok \/ ~fails
                     /\ files' = RunSudo(files, last, leak, cleaned)
                     /\ active_credentials' =
                           IF ok THEN [k \in DOMAIN active_credentials \ {mount_point} |->
                                          active_credentials[k]]
                           ELSE active_credentials
                     /\ mounted' = IF ok THEN mounted \ {mount_point} ELSE mounted
                     /\ dirs' = IF ok /\ mount_point \in DOMAIN dirs
                                   /\ IsEmptyDir(files', dirs, mount_point)
                                THEN [d \in DOMAIN dirs \ {mount_point} |-> dirs[d]]
                                ELSE dirs
                     /\ Return("unmount_share", arg, IF ok THEN "True" ELSE "False",
                               info(IF retry THEN 2 ELSE 1, fails,
                                    IF ok THEN <<"P", "a", "r", "t", "a", "g", "e">>
                                    ELSE IF last = "raised" THEN <<"E", "r", "r", "e", "u", "r">>
                                    ELSE <<"E", "c", "h", "e", "c">>))
       /\ UNCHANGED <<umask, entries, seen>>

(***************************************************************************)
(* SpecMount: shares are mounted and unmounted, credential files deleted.  *)
(***************************************************************************)

\* /m/ and the relative m name a mount point the way a form field may
MntSlash == <<"/", "m", "/">>

\* (server, share, mount_point, username, password, domain, filesystem, options)
MountArgs ==
    {<<<<"s">>, <<"x">>, MntM, <<"u">>, <<"p">>, <<>>, Cifs, <<>>>>,
     <<<<"s">>, <<"x">>, MntSlash, <<"u">>, <<"p">>, <<"d">>, Cifs, <<"o">>>>,
     <<<<"s">>, <<"x">>, MntL, <<"u">>, <<"p">>, <<>>, Cifs, <<>>>>,
     <<<<"s">>, <<"y">>, MntN, <<>>, <<>>, <<>>, Nfs, <<>>>>}

UnmountPaths == {MntM, <<" ", "/", "m", "/">>, MntL, MntN}

\* a credential file an earlier run left in the directory
StaleCred == CredPath(<<"o">>)

InitMount ==
    /\ \E stale \in BOOLEAN :
          files = (FstabFile :> FileOf(<<LineA>>, Mode644))
                  @@ (IF stale THEN StaleCred :> CredFile(<<"v">>, <<"q">>) ELSE <<>>)
    /\ dirs = (MntM :> Mode755) @@ (credentials_dir :> Mode700) @@ BaseDirs
    /\ umask = 18
    /\ entries = LoadedEntries(files)
    /\ pc = "idle"
    /\ op = NoOp
    /\ pre = files
    /\ calls = <<>>
    /\ ncalls = 0
    /\ seen = NotSeen
    /\ mounted \in {{}, {MntN}}
    /\ active_credentials = <<>>

MountCall ==
    \E a \in MountArgs : mount_share(a[1], a[2], a[3], a[4], a[5], a[6], a[7], a[8])

UnmountCall == \E p \in UnmountPaths, lazy \in BOOLEAN : unmount_share(p, FALSE, lazy)

MountDeleteCall ==
    /\ ncalls < MaxMountCalls
    /\ \E p \in {StaleCred} \cup {credentials_dir \o <<"/">> \o CredFilename(<<"x">>, <<"s">>, u) :
                                     u \in Uuids} :
          delete_credentials_file(p)

NextMount == MountCall \/ UnmountCall \/ MountDeleteCall

SpecMount == InitMount /\ [][NextMount]_vars

\* the credential files of fs
CredFilesOf(fs) == {p \in DOMAIN fs : IsRelativeTo(p, credentials_dir) /\ p # credentials_dir}

\* the credential files the last call removed
Gone == CredFilesOf(pre) \ CredFilesOf(files)

UnmountReturned == pc = "idle" /\ calls # <<>> /\ Last.name = "unmount_share"

MountReturned == pc = "idle" /\ calls # <<>> /\ Last.name = "mount_share"

\* C10 as stated: credential files outlive unmount.  A credential file that
\* exists when mount_share or unmount_share is called still exists when the
\* call has returned; only delete_credentials_file removes credential files.
C10_OutlivesUnmount == (UnmountReturned \/ MountReturned) => Gone = {}

\* the key _cleanup_credentials looks up for the last unmount
UnmountKey ==
    LET s == Strip(Last.arg.mount_point)
        e == IF Len(s) >= 2 /\ s[1] = "~" /\ s[2] # "/" THEN s
             ELSE IF s # <<>> /\ s[1] = "~" THEN Home \o Tail(s) ELSE s
    IN AbsPath(e)

\* the file recorded for the last unmount's mount point, if any
Recorded ==
    IF UnmountKey \in DOMAIN Last.info.before
    THEN {Resolve(Last.info.before[UnmountKey])}
    ELSE {}

\* C10, amended: a successful unmount_share removes the credential file that
\* mount_share recorded in active_credentials under the normalised mount
\* point (unless the unlink fails) and no other credential file; a failed
\* unmount, an unmount of a mount point without a record, and mount_share
\* remove none.
C10_UnmountRemovesRecorded ==
    /\ MountReturned => Gone = {}
    /\ (UnmountReturned /\ Last.value = "False") => Gone = {}
    /\ (UnmountReturned /\ Last.value = "True") =>
          /\ Gone \subseteq Recorded
          /\ ~Last.info.fails => Recorded \cap CredFilesOf(files) = {}

\* a successful unmount has removed the file the mount created
C10_Witness ==
    /\ UnmountReturned
    /\ Last.value = "True"
    /\ Recorded # {}
    /\ Gone = Recorded

(***************************************************************************)
(* SpecService: the three service calls a window makes, add_fstab_entry,   *)
(* mount_share and unmount_share, with every step of theirs able to fail.  *)
(***************************************************************************)

NextService == AddShareCall \/ AddFstabEntrySteps \/ MountCall \/ UnmountCall

SpecService == InitMount /\ [][NextService]_vars

ServiceReturned ==
    /\ pc = "idle" /\ calls # <<>>
    /\ Last.name \in {"add_fstab_entry", "mount_share", "unmount_share"}

\* the pair (success, message) the last call returned
ReturnedOk == IF Last.name = "add_fstab_entry" THEN Last.value.ok ELSE Last.value = "True"

ReturnedMessage ==
    IF Last.name = "add_fstab_entry" THEN Last.value.message ELSE Last.info.message

\* the primary step of the last call has taken effect: the line is in the
\* fstab file, the share is mounted, the mount point is no longer mounted
PrimaryDone ==
    IF Last.name = "add_fstab_entry"
    THEN /\ Last.info.line # <<>>
         /\ Exists(files, FstabFile)
         /\ Exists(pre, FstabFile)
         /\ files[FstabFile].content = WithEntryAdded(pre[FstabFile].content, Last.info.line)
    ELSE IF Last.name = "mount_share"
    THEN Resolve(Last.arg.mount_point) \in mounted
    ELSE Last.info.prompts >= 1 /\ UnmountKey \notin mounted

AddWentOn ==
    \E i \in 1..Len(Last.info.outcomes) :
        /\ Last.info.outcomes[i] # "ok"
        /\ (i < Len(Last.info.outcomes) \/ Last.value.ok)

\* C12: No silent retry.  Within one call of mount_share, unmount_share or
\* add_fstab_entry, once a privileged command has failed or its elevation
\* prompt was declined, the call returns that failure with no further prompt
\* and no further command; a successful mount or unmount has shown one prompt
\* and run its command once.
C12_NoSilentRetry ==
    ServiceReturned =>
        /\ Last.name \in {"mount_share", "unmount_share"} =>
              /\ Last.info.prompts <= 1
              /\ Last.value = "True" => Last.info.prompts = 1
        /\ Last.name = "add_fstab_entry" => ~AddWentOn

\* the temporary files that exist now and did not when the last call began
TempsLeft == {i \in 1..Len(TempNames) : TempNames[i] \in DOMAIN files \ DOMAIN pre}

\* C13: Guaranteed temp-file release.  When add_fstab_entry returns, on any
\* exit path on which no unlink failed (the write of the temporary file
\* failed, the elevation was declined, the copy failed, the chmod failed, or
\* all went well), no temporary file the call created exists, its own or
\* _run_sudo_command's; the same holds for add_to_fstab on the paths that end
\* before its privileged copy.
C13_TempFilesReleased ==
    /\ (AddReturned /\ ~Last.info.unlink_failed) => TempsLeft = {}
    /\ (NmReturned /\ Last.info.copies = 0) => TempsLeft = {}

\* the indexes of the data lines of a text whose second field is the mount point
Conflicting(content, mount_point) ==
    {i \in 1..Len(content.lines) :
        /\ IsDataLine(content.lines[i])
        /\ Len(Words(content.lines[i])) >= 2
        /\ Words(content.lines[i])[2] = mount_point}

\* add_to_fstab has persisted a Replace: it returned True on an fstab that
\* had a data line for the mount point
C14_Case ==
    /\ NmReturned
    /\ Last.value = "True"
    /\ Exists(pre, FstabFile)
    /\ Conflicting(pre[FstabFile].content, Last.arg.mount_point) # {}

\* C14: Conflict REPLACE in place.  When fstab has a data line for the new
\* entry's mount point and the decision is Replace, the persisted file has as
\* many lines as before, the new line (the new source, the mount point, the
\* file system) stands at the index of each conflicting line, every other
\* line is unchanged at its index, and the new line is not appended.
C14_ReplaceInPlace ==
    C14_Case =>
        LET a == pre[FstabFile].content.lines
            b == files[FstabFile].content.lines
            idx == Conflicting(pre[FstabFile].content, Last.arg.mount_point)
        IN /\ Len(b) = Len(a)
           /\ \A i \in idx :
                 /\ Len(Words(b[i])) >= 3
                 /\ Words(b[i])[1] = Source(Last.arg.server, Last.arg.share, Last.arg.filesystem)
                 /\ Words(b[i])[2] = Last.arg.mount_point
                 /\ Words(b[i])[3] = Last.arg.filesystem
                 /\ \A j \in idx : b[j] = b[i]
           /\ \A i \in (1..Len(a)) \ idx : b[i] = a[i]

\* a Replace on an fstab that holds a comment and a line for another mount
\* point around the conflicting line
C14_Witness ==
    /\ C14_Case
    /\ Len(pre[FstabFile].content.lines) = 3
    /\ Conflicting(pre[FstabFile].content, Last.arg.mount_point) = {2}
    /\ files[FstabFile].content.lines[2] # pre[FstabFile].content.lines[2]

\* the fstab file is what it was when the call in flight, or the last call, began
FstabUntouched ==
    /\ Exists(files, FstabFile) <=> Exists(pre, FstabFile)
    /\ Exists(files, FstabFile) => files[FstabFile] = pre[FstabFile]

\* a save is in flight or was the last call
SaveCall == op.name = "save" \/ (pc = "idle" /\ calls # <<>> /\ Last.name = "save")

\* save has returned because the backup copy failed
BackupFailed ==
    /\ pc = "idle" /\ calls # <<>>
    /\ Last.name = "save"
    /\ Last.info.failed = "backup"

\* C15: Backup failure is fatal.  When the copy of the fstab file to the
\* .bak path fails, save(backup=True) raises FstabError, the fstab file is
\* what it was and no temporary file has been created; at every point of a
\* save at which the fstab file differs from what it was, the backup holds
\* the content the file had before.
C15_BackupFailureFatal ==
    /\ BackupFailed =>
          /\ Last.value = "FstabError"
          /\ FstabUntouched
          /\ ~Exists(files, TempPath(FstabFile))
    /\ (SaveCall /\ ~FstabUntouched) =>
          /\ Exists(files, BackupPath)
          /\ files[BackupPath].content = pre[FstabFile].content

\* the backup failed part-way in a save that would have changed the file
C15_Witness ==
    /\ BackupFailed
    /\ Last.value = "FstabError"
    /\ SaveContent(entries) # pre[FstabFile].content
    /\ Exists(files, BackupPath)
    /\ files[BackupPath].content # pre[FstabFile].content

\* C16: Completeness of the unused set.  Every file of list_credential_files
\* that no credentials= reference of a loaded fstab entry denotes under any
\* of the four heuristics is in the result of find_unused_credentials,
\* whatever the file holds; and the result holds only files of the listing.
C16_UnusedComplete ==
    FindReturned =>
        /\ \A f \in ListCredentialFiles(files) :
              (~\E v \in UsedCredPaths(entries) : Denotes(files, v, Resolve(f)))
              => Resolve(f) \in Last.value
        /\ Last.value \subseteq {Resolve(f) : f \in ListCredentialFiles(files)}

\* C17: Persist failures are reported.  add_fstab_entry returns success only
\* if the privileged copy over the fstab path and the privileged chmod 644
\* both succeeded; when either fails or its elevation prompt is declined the
\* call returns failure.
C17_PersistFailuresReported ==
    AddReturned =>
        /\ Last.value.ok => Last.info.outcomes = <<"ok", "ok">>
        /\ (\E i \in 1..Len(Last.info.outcomes) : Last.info.outcomes[i] # "ok")
           => (~Last.value.ok /\ Last.value.message # <<>>)

\* no two data lines of the text have the same mount-point field
OnePerMountPoint(content) ==
    \A i, j \in 1..Len(content.lines) :
        (/\ i # j
         /\ IsDataLine(content.lines[i]) /\ IsDataLine(content.lines[j])
         /\ Len(Words(content.lines[i])) >= 2 /\ Len(Words(content.lines[j])) >= 2)
        => Words(content.lines[i])[2] # Words(content.lines[j])[2]

\* C18: Single entry per mount point.  A call that adds a share
\* (add_fstab_entry or add_to_fstab, whatever the server, share, file system,
\* credentials and answers) on an fstab with at most one data line per mount
\* point leaves an fstab with at most one data line per mount point.
C18_SingleEntryPerMountPoint ==
    (/\ AddReturned \/ NmReturned
     /\ Exists(pre, FstabFile)
     /\ Exists(files, FstabFile)
     /\ OnePerMountPoint(pre[FstabFile].content))
    => OnePerMountPoint(files[FstabFile].content)

(***************************************************************************)
(* SpecStale: one running application adds shares through FstabService and *)
(* opens the purge dialog, whose finder reads the entries the              *)
(* NetworkShareService loaded when the application started.                *)
(***************************************************************************)

NextStale == AddShareCall \/ AddFstabEntrySteps \/ find_unused_credentials

SpecStale == InitAdd /\ [][NextStale]_vars

\* C19: Finder sees the current fstab.  After add_fstab_entry has persisted a
\* line with a credentials=<path> option, a later find_unused_credentials of
\* the same application does not report <path> as unused.
C19_FinderSeesCurrentFstab ==
    \A i, j \in 1..Len(calls) :
        (/\ i < j
         /\ calls[i].name = "add_fstab_entry"
         /\ calls[i].value.ok
         /\ calls[i].info.creds # <<>>
         /\ calls[j].name = "find_unused_credentials")
        => Resolve(calls[i].info.creds) \notin calls[j].value

(***************************************************************************)
(* SpecRefuse: a share is added again while fstab already has its line,    *)
(* which names the credential file an earlier call wrote.                  *)
(***************************************************************************)

\* //s/x /m cifs credentials=/h/c/s_x.cred 0 0
LineLive == CredLine(KeyCredentials \o FsCredsFile(<<"s">>, <<"x">>))

InitRefuse ==
    /\ \E ls \in {<<LineLive>>, <<LineComment, LineLive, LineInline>>} :
          files = (FstabFile :> FileOf(ls, Mode644))
                  @@ (Resolve(FsCredsFile(<<"s">>, <<"x">>)) :> OldCred)
    /\ dirs = (MntM :> Mode755) @@ (credentials_dir :> Mode700) @@ BaseDirs
    /\ umask = 18
    /\ entries = LoadedEntries(files)
    /\ pc = "idle"
    /\ op = NoOp
    /\ pre = files
    /\ calls = <<>>
    /\ ncalls = 0
    /\ seen = NotSeen
    /\ mounted = {}
    /\ active_credentials = <<>>

NextRefuse == AddShareCall \/ AddFstabEntrySteps \/ NmAddCall

SpecRefuse == InitRefuse /\ [][NextRefuse]_vars

\* the last call was refused: the entry was found present, or the answer to
\* the conflict question was Keep
Refused ==
    \/ AddReturned /\ Last.value.why = "exists"
    \/ NmReturned /\ Last.info.kept

\* the credential files the lines of the fstab file name
LiveCredentials(fs) ==
    IF Exists(fs, FstabFile) THEN UsedCredPaths(LoadLines(fs[FstabFile].content.lines)) ELSE {}

\* C20: A refused AddShare does not touch live credentials.  When a call
\* that adds a share returns failure because the entry already exists or
\* because the conflict decision is Keep, every credential file a line of
\* fstab names holds what it held before the call.
C20_RefusedKeepsCredentials ==
    Refused =>
        \A p \in LiveCredentials(files) :
            Exists(pre, p) => (Exists(files, p) /\ files[p].content = pre[p].content)

(***************************************************************************)
(* C21: a share added for a mount point fstab has no data line for.        *)
(***************************************************************************)

\* the call began on an fstab with no data line whose mount-point field is
\* the mount point of the new entry
NoConflict(mount_point) ==
    /\ Exists(pre, FstabFile)
    /\ ~HasLineFor(pre[FstabFile].content, mount_point)

\* lines is the lines before the call, unchanged and in order, then possibly
\* lines that are no data lines, then new_line as the last line
AppendedTo(before, lines, new_line) ==
    /\ Len(lines) > Len(before)
    /\ SubSeq(lines, 1, Len(before)) = before
    /\ lines[Len(lines)] = new_line
    /\ \A i \in (Len(before) + 1)..(Len(lines) - 1) : ~IsDataLine(lines[i])

\* C21: No conflict means append.  When no data line of fstab has the new
\* entry's mount point in its mount-point field, the add is not refused as an
\* existing entry, it succeeds when its privileged steps succeed, and the
\* content then persisted is the previous lines, unchanged and in order,
\* followed by the new entry; a line whose source or mount point merely
\* contains the new source or mount point is no conflict.
C21_NoConflictAppends ==
    /\ (AddReturned /\ NoConflict(Resolve(Last.arg.mount_point)))
       => /\ Last.value.why # "exists"
          /\ Last.info.outcomes = <<"ok", "ok">> /\ ~Last.info.unlink_failed => Last.value.ok
          /\ Last.value.ok =>
                AppendedTo(pre[FstabFile].content.lines, files[FstabFile].content.lines,
                           Last.info.line)
    /\ (NmReturned /\ NoConflict(Last.arg.mount_point) /\ Last.info.asked = 0)
       => /\ ~Last.info.kept
          /\ Last.value = "True" =>
                /\ Len(files[FstabFile].content.lines) = Len(pre[FstabFile].content.lines) + 1
                /\ SubSeq(files[FstabFile].content.lines, 1, Len(pre[FstabFile].content.lines))
                   = pre[FstabFile].content.lines

(***************************************************************************)
(* C23: Fstab.remove_entry on the in-memory document.                      *)
(***************************************************************************)

RemoveReturned == pc = "idle" /\ calls # <<>> /\ Last.name = "remove_entry"

\* C23: removeEntry.  After remove_entry(filesystem, mount_point, fs_type) no
\* entry with that identity triple (fields stripped, mount point resolved, as
\* entries hold them) remains, the entries with another triple remain,
\* unchanged and in their order, and the result is True exactly when at least
\* one entry was removed.
C23_RemoveEntry ==
    RemoveReturned =>
        /\ ~HoldsTriple(Last.info.after, Last.arg.entry)
        /\ Last.info.after
           = SelectSeq(Last.info.before, LAMBDA e : Triple(e) # Triple(Last.arg.entry))
        /\ Last.value = HoldsTriple(Last.info.before, Last.arg.entry)
        /\ entries = Last.info.after

\* two entries with the triple, added without the duplicate check, were
\* removed and an entry with another triple stayed
C23_Witness ==
    /\ RemoveReturned
    /\ Last.value = TRUE
    /\ Len(Last.info.before) >= Len(Last.info.after) + 2
    /\ Last.info.after # <<>>

(***************************************************************************)
(* NetworkShareService._remove_from_fstab (src/services/network_share.py)  *)
(* on the Fstab object the service loaded when it was built.               *)
(***************************************************************************)

\* Fstab.save(backup=True) run to its end inside a caller: the files it can
\* leave, with the step that failed ("none": save returned)
SaveOutcomes(fs, um, es) ==
    LET tmp == TempPath(FstabFile)
        content == SaveContent(es)
        copied == Copy2(fs, FstabFile, BackupPath, um)
        opened == OpenW(copied, tmp, um)
        written == WriteData(opened, tmp, content)
        moded == Chmod(written, tmp, Mode644)
    IN {[files |-> fs, failed |-> "backup"]}
       \cup (IF ~Exists(fs, FstabFile) THEN {}
             ELSE {[files |-> WriteData(OpenW(fs, BackupPath, um), BackupPath, part),
                    failed |-> "backup"] : part \in Prefixes(fs[FstabFile].content)}
                  \cup {[files |-> SfwCleanup(copied, tmp), failed |-> "open"]}
                  \cup {[files |-> SfwCleanup(WriteData(opened, tmp, part), tmp),
                         failed |-> "write"] : part \in Prefixes(content)}
                  \cup {[files |-> SfwCleanup(written, tmp), failed |-> "chmod"],
                        [files |-> SfwCleanup(moded, tmp), failed |-> "replace"],
                        [files |-> SfwInstall(moded, tmp, FstabFile), failed |-> "none"]})

\* for entry in entries: self.fstab.remove_entry(entry.filesystem,
\* entry.mount_point, entry.fs_type)
RECURSIVE RemoveEach(_, _)
RemoveEach(es, found) ==
    IF found = <<>> THEN es
    ELSE RemoveEach(WithoutEntry(es, FstabEntry(Head(found).filesystem, Head(found).mount_point,
                                                Head(found).fs_type, <<>>, 0, 0, <<>>)),
                    Tail(found))

\* _remove_from_fstab: look the mount point up in the loaded entries, remove
\* what was found, save; an exception of save becomes (False, message) and
\* the entries stay removed in memory
remove_from_fstab(mount_point) ==
    LET mp == Resolve(mount_point)
        found == find_entries_by_mount_point(entries, mp)
        after == RemoveEach(entries, found)
    IN /\ Idle
       /\ pre' = files
       /\ IF found = <<>>
          THEN /\ entries' = entries
               /\ files' = files
               /\ Return("remove_from_fstab", mount_point, "False",
                         [before |-> entries, after |-> entries, failed |-> "find"])
          ELSE /\ entries' = after
               /\ \E r \in SaveOutcomes(files, umask, after) :
                     /\ files' = r.files
                     /\ Return("remove_from_fstab", mount_point,
                               IF r.failed = "none" THEN "True" ELSE "False",
                               [before |-> entries, after |-> after, failed |-> r.failed])
       /\ UNCHANGED <<dirs, umask, others>>

\* a caller asks for the entries of a mount point
find_entries(mount_point) ==
    /\ Idle
    /\ pre' = files
    /\ Return("find_entries_by_mount_point", mount_point,
              find_entries_by_mount_point(entries, mount_point), [before |-> entries])
    /\ UNCHANGED <<files, dirs, umask, entries, others>>

\* the mount points asked about: the link /l to /m, /n, the working directory
RemovePaths == {MntL, MntN, Cwd}

RemoveFromFstabCall == \E p \in RemovePaths : remove_from_fstab(p)

FindEntriesCall == \E p \in RemovePaths : find_entries(p)

\* (filesystem, mount_point, fs_type) of the remove_entry calls made
RemoveArgs == {<<<<"a">>, MntM, <<"t">>>>, <<<<>>, <<".">>, <<>>>>}

RemoveAtCall == \E a \in RemoveArgs : remove_entry(a[1], a[2], a[3])

NextRemove ==
    AddShareCall \/ AddFstabEntrySteps \/ RemoveFromFstabCall \/ FindEntriesCall \/ RemoveAtCall

SpecRemove == InitAdd /\ [][NextRemove]_vars

\* the entry stands for a comment line: the test Fstab.save makes
IsCommentEntry(e) == e.filesystem = <<>>

CommentEntries(es) == SelectSeq(es, IsCommentEntry)

\* C24: Comment lines are not mount entries.  For every mount point p, the
\* working directory included, find_entries_by_mount_point(p) returns no
\* entry that stands for a comment line, and remove_entry and
\* _remove_from_fstab called for p leave the comment entries of the document
\* as they were.
C24_CommentsAreNotEntries ==
    (pc = "idle" /\ calls # <<>>) =>
        /\ Last.name = "find_entries_by_mount_point" => CommentEntries(Last.value) = <<>>
        /\ Last.name \in {"remove_entry", "remove_from_fstab"} =>
               CommentEntries(Last.info.after) = CommentEntries(Last.info.before)

RemoveFromReturned == pc = "idle" /\ calls # <<>> /\ Last.name = "remove_from_fstab"

\* the data line is for another mount point than the one asked to be removed
ForOtherMountPoint(l, mount_point) ==
    /\ IsDataLine(l)
    /\ Len(Words(l)) >= 2
    /\ Resolve(Words(l)[2]) # Resolve(mount_point)

\* C25: RemoveShare keeps unrelated lines.  After _remove_from_fstab(mp)
\* every data line the fstab file held when the call began and whose mount
\* point is not mp is still in the file, with the same six fields, also when
\* the line was written by add_fstab_entry after the service had loaded the
\* file.
C25_RemoveKeepsOtherLines ==
    (RemoveFromReturned /\ Exists(pre, FstabFile)) =>
        /\ Exists(files, FstabFile)
        /\ \A i \in 1..Len(pre[FstabFile].content.lines) :
              ForOtherMountPoint(pre[FstabFile].content.lines[i], Last.arg) =>
                  \E j \in 1..Len(files[FstabFile].content.lines) :
                      SixFields(files[FstabFile].content.lines[j])
                      = SixFields(pre[FstabFile].content.lines[i])

(***************************************************************************)
(* SpecPair: a second share is added when fstab holds the entry, and the   *)
(* credentials directory the file, that a first add_fstab_entry left.      *)
(***************************************************************************)

ShareUnderscore == <<"x", "_", "y">>

ShareSlash == <<"x", "/", "y">>

\* what add_fstab_entry("s", "x_y", "/n", "cifs", "", "v", "r") persisted
FirstCredPath == Resolve(FsCredsFile(<<"s">>, ShareUnderscore))

FirstLine ==
    FstabLine(Source(<<"s">>, ShareUnderscore, Cifs), MntN, Cifs,
              KeyCredentials \o FsCredsFile(<<"s">>, ShareUnderscore), 0, 0)

\* (server, share, mount_point, filesystem, options, username, password, domain)
PairAddArgs ==
    {<<<<"s">>, ShareSlash, MntM, Cifs, <<>>, <<"u">>, <<"p">>, <<>>>>,
     <<<<"s">>, <<"z">>, MntM, Cifs, <<>>, <<"u">>, <<"p">>, <<>>>>}

\* (server, share, mount_point, username, password, domain, filesystem, options)
PairNmArgs ==
    {<<<<"s">>, ShareSlash, MntM, <<"u">>, <<"p">>, <<>>, Cifs, <<>>>>,
     <<<<"s">>, <<"z">>, MntM, <<"u">>, <<"p">>, <<>>, Cifs, <<"o">>>>}

InitPair ==
    /\ files = (FstabFile :> [content |-> WithEntryAdded(EmptyContent, FirstLine),
                              mode |-> Mode644, link |-> 0])
               @@ (FirstCredPath :> [content |-> FsCredContent(<<"v">>, <<"r">>, <<>>),
                                     mode |-> Mode600, link |-> 0])
    /\ \E m \in BOOLEAN :
          dirs = (IF m THEN MntM :> Mode755 ELSE <<>>) @@ (MntN :> Mode755)
                 @@ (credentials_dir :> Mode700) @@ BaseDirs
    /\ umask = 18
    /\ entries = LoadedEntries(files)
    /\ pc = "idle"
    /\ op = NoOp
    /\ pre = files
    /\ calls = <<>>
    /\ ncalls = 0
    /\ seen = NotSeen
    /\ mounted = {}
    /\ active_credentials = <<>>

PairAddCall ==
    \E a \in PairAddArgs : add_fstab_entry(a[1], a[2], a[3], a[4], a[5], a[6], a[7], a[8])

PairNmCall ==
    \E a \in PairNmArgs : nm_add_to_fstab(a[1], a[2], a[3], a[4], a[5], a[6], a[7], a[8])

NextPair == PairAddCall \/ AddFstabEntrySteps \/ PairNmCall

SpecPair == InitPair /\ [][NextPair]_vars

\* a call that adds a share with credentials has returned
SecondReturned == AddReturned \/ NmReturned

SecondAdded ==
    \/ AddReturned /\ Last.value.ok
    \/ NmReturned /\ Last.value = "True"

\* C22: Distinct shares have distinct credential files.  When a share is
\* added with credentials after another share of a different (server, share)
\* pair, the file that holds the first entry's username and password holds
\* them still, and once the second entry is persisted the two fstab lines
\* name two different credential files.
C22_DistinctCredentialFiles ==
    (SecondReturned /\ <<Last.arg.server, Last.arg.share>> # <<<<"s">>, ShareUnderscore>>)
    => /\ Exists(files, FirstCredPath)
       /\ files[FirstCredPath].content = FsCredContent(<<"v">>, <<"r">>, <<>>)
       /\ SecondAdded => Cardinality(LiveCredentials(files)) = 2

(***************************************************************************)
(* C26: saving what a load of a saved file gives.                          *)
(***************************************************************************)

\* the contents save writes after a load of one of the initial files
SavedForms == {SaveContent(LoadLines(ls)) : ls \in SaveContents}

\* C26: Serialization is a fixpoint.  When the fstab file holds a content G
\* that load and save wrote, a further load followed by save writes exactly
\* G again, also for data lines with a '#' inside one of the first five
\* fields and for comment lines that start with several '#'.
C26_SaveIsFixpoint ==
    (SavedUnedited /\ pre[FstabFile].content \in SavedForms)
    => files[FstabFile].content = pre[FstabFile].content

(***************************************************************************)
(* C27: lines of fstab that load cannot parse.                             *)
(***************************************************************************)

\* the text of a field before a '#'
BeforeHash(w) == Strip(Split(w, "#")[1])

\* a data line with fewer than six fields, or whose dump or pass field is no
\* integer
Malformed(l) ==
    /\ IsDataLine(l)
    /\ \/ Len(Words(l)) < 6
       \/ ~IntOk(Words(l)[5])
       \/ ~IntOk(BeforeHash(Words(l)[6]))

LoadReturned == pc = "idle" /\ calls # <<>> /\ Last.name = "load"

\* C27: Malformed lines are skipped, not fatal.  When the fstab file exists,
\* load does not raise for a data line with fewer than six fields or with a
\* dump or pass field that is no integer: the line yields no entry, and the
\* other lines yield their entries, in file order, as they would if the
\* malformed lines were absent.
C27_MalformedSkipped ==
    (LoadReturned /\ Exists(pre, FstabFile)) =>
        LET lines == pre[FstabFile].content.lines
            others_ == SelectSeq(lines, LAMBDA l : ~Malformed(l))
        IN /\ Last.value = "ok"
           /\ entries = LoadLines(others_)
           /\ Len(entries) <= Len(SelectSeq(others_, LAMBDA l : ~IsBlankLine(l)))

\* a load of a file that has a malformed line between two lines that yield
\* entries
C27_Witness ==
    /\ LoadReturned
    /\ Last.value = "ok"
    /\ \E i \in 2..(Len(pre[FstabFile].content.lines) - 1) :
          /\ Malformed(pre[FstabFile].content.lines[i])
          /\ ~Malformed(pre[FstabFile].content.lines[i - 1])
          /\ ~Malformed(pre[FstabFile].content.lines[i + 1])
    /\ Len(entries) = Len(pre[FstabFile].content.lines) - 1

(***************************************************************************)
(* C28: the result of delete_credentials_file inside the directory.        *)
(***************************************************************************)

\* the path names a location inside the credentials directory once ~ is
\* expanded and links and ".." are resolved
ResolvesInside(path) == ExpandUserOk(path) /\ DeleteAllowed(Resolve(ExpandUser(path)))

\* C28: delete result.  For a path inside the credentials directory,
\* delete_credentials_file does not raise; it returns True only when the path
\* does not exist as it returns, False when a file operation failed, and for
\* a path that does not exist True with nothing changed, so that a second
\* delete of a deleted path returns True again.
C28_DeleteResult ==
    /\ (DeleteReturned /\ ResolvesInside(Last.arg)) =>
          LET p == Resolve(ExpandUser(Last.arg)) IN
          /\ Last.value \in {"True", "False"}
          /\ Last.value = "True" => ~Exists(files, p)
          /\ Last.info.failed # "none" => Last.value = "False"
          /\ (~Exists(pre, p) /\ p \notin DOMAIN dirs) => (Last.value = "True" /\ files = pre)
    /\ \A i \in 1..(Len(calls) - 1) :
          (/\ calls[i].name = "delete_credentials_file"
           /\ calls[i + 1].name = "delete_credentials_file"
           /\ calls[i].arg = calls[i + 1].arg
           /\ ResolvesInside(calls[i].arg)
           /\ calls[i].value = "True")
          => calls[i + 1].value = "True"

\* a credential file named through ~ was overwritten and unlinked
C28_Witness ==
    /\ DeleteReturned
    /\ ResolvesInside(Last.arg)
    /\ Head(Last.arg) = "~"
    /\ Exists(pre, Resolve(ExpandUser(Last.arg)))
    /\ ~Exists(files, Resolve(ExpandUser(Last.arg)))
    /\ Last.value = "True"

(***************************************************************************)
(* C29: a mount_share whose mount command fails.                           *)
(***************************************************************************)

\* C29: Cleanup on mount failure.  When mount_share has created a credential
\* file and the privileged mount command then fails or the elevation is
\* declined, the file is gone when mount_share returns and
\* active_credentials has no entry for the mount point.
C29_CleanupOnMountFailure ==
    (MountReturned /\ Last.value = "False" /\ Last.info.creds_file # <<>>)
    => /\ ~Exists(files, Resolve(Last.info.creds_file))
       /\ Last.arg.mount_point \notin DOMAIN active_credentials

(***************************************************************************)
(* CredentialsManager.cleanup_old_credentials (src/utils/credentials.py).  *)
(* Modification times are days on a clock that reads Now at the call.      *)
(***************************************************************************)

Now == 3

\* the st_mtime values stat gives for the listed files
Times == 1..Now

\* a test that also takes a file modified at the cutoff
AtOrBeforeCutoff(mtime, cutoff) == mtime <= cutoff

\* file_stat.st_mtime < cutoff_time
BeforeCutoff(mtime, cutoff) == mtime < cutoff

\* delete_credentials_file(cred_file) inside the loop: the files it can leave
\* and what it returns
DeleteOutcomes(fs, ds, path) ==
    LET file_path == Resolve(ExpandUser(path)) IN
    IF ~DeleteAllowed(file_path) \/ StatDenied(file_path) \/ file_path \in DOMAIN ds
    THEN {[files |-> fs, ok |-> FALSE]}
    ELSE IF ~Exists(fs, file_path) THEN {[files |-> fs, ok |-> TRUE]}
    ELSE {[files |-> Unlink(WriteData(fs, file_path, Urandom), file_path), ok |-> TRUE],
          [files |-> fs, ok |-> FALSE]}
         \cup {[files |-> WriteData(fs, file_path, c), ok |-> FALSE] : c \in {EmptyContent, Urandom}}

\* the loop over glob("*.cred"), in the order the directory gives: stat,
\* compare, delete, count
RECURSIVE PurgeOutcomes(_, _, _, _, _, _, _)
PurgeOutcomes(fs, ds, todo, mtimes, cutoff, deleted, errors) ==
    IF todo = {} THEN {[files |-> fs, deleted |-> deleted, errors |-> errors]}
    ELSE LET cred_file == CHOOSE p \in todo : TRUE
             rest == todo \ {cred_file}
         IN IF StatDenied(cred_file)
            THEN PurgeOutcomes(fs, ds, rest, mtimes, cutoff, deleted, errors + 1)
            ELSE IF ~BeforeCutoff(mtimes[cred_file], cutoff)
            THEN PurgeOutcomes(fs, ds, rest, mtimes, cutoff, deleted, errors)
            ELSE UNION {PurgeOutcomes(r.files, ds, rest, mtimes, cutoff,
                                      deleted + (IF r.ok THEN 1 ELSE 0),
                                      errors + (IF r.ok THEN 0 ELSE 1)) :
                           r \in DeleteOutcomes(fs, ds, cred_file)}

\* cleanup_old_credentials: the listing succeeds and the loop runs, or the
\* listing raises and the outer except counts one error
cleanup_old_credentials(max_age_days) ==
    LET listed == ListCredentialFiles(files)
        cutoff_time == Now - max_age_days
    IN /\ CanWrite
       /\ pre' = files
       /\ \/ \E mtimes \in [listed -> Times] :
                \E r \in PurgeOutcomes(files, dirs, listed, mtimes, cutoff_time, 0, 0) :
                   /\ files' = r.files
                   /\ Return("cleanup_old_credentials", max_age_days, <<r.deleted, r.errors>>,
                             [listed |-> TRUE, mtimes |-> mtimes, cutoff |-> cutoff_time])
          \/ /\ files' = files
             /\ Return("cleanup_old_credentials", max_age_days, <<0, 1>>,
                       [listed |-> FALSE, mtimes |-> <<>>, cutoff |-> cutoff_time])
       /\ UNCHANGED <<dirs, umask, entries, others>>

\* a file of the credentials directory that is no *.cred file
NotesPath == credentials_dir \o <<"/", "n">>

InitPurge ==
    /\ \E x, y, a \in BOOLEAN :
          files = (FstabFile :> FileOf(<<LineA>>, Mode644))
                  @@ (NotesPath :> FileOf(<<<<"r">>>>, Mode600))
                  @@ FindFiles(x, y, a, FALSE)
    /\ dirs = (credentials_dir :> Mode700) @@ BaseDirs
    /\ umask = 18
    /\ entries = LoadedEntries(files)
    /\ pc = "idle"
    /\ op = NoOp
    /\ pre = files
    /\ calls = <<>>
    /\ ncalls = 0
    /\ seen = NotSeen
    /\ mounted = {}
    /\ active_credentials = <<>>

\* max_age_days of the calls made
MaxAges == {0, 1}

PurgeCall == \E d \in MaxAges : cleanup_old_credentials(d)

NextPurge == PurgeCall \/ FindDeleteCall

SpecPurge == InitPurge /\ [][NextPurge]_vars

PurgeReturned == pc = "idle" /\ calls # <<>> /\ Last.name = "cleanup_old_credentials"

\* the files the last cleanup listed whose modification time is before the
\* cutoff
OlderFiles == {p \in DOMAIN Last.info.mtimes : Last.info.mtimes[p] < Last.info.cutoff}

=============================================================================
